---- MODULE Spec2Model ----
(***************************************************************************)
(* A model of ForumSyncService (discord_bot/services/forum_sync_service.py) *)
(* : the reconciliation pass sync_from_database, the persisted mapping it   *)
(* loads and saves, the remote forum threads it acts on and the task store  *)
(* it reads.  Strings are sequences of one-character strings, so that task  *)
(* keys, names and thread-id strings share one type.                        *)
(***************************************************************************)
EXTENDS Integers, Sequences, FiniteSets, TLC

\* Largest thread id the remote hands out; create_thread fails beyond it.
MaxThreads == 2
\* Number of events in a run: passes started and changes the environment makes
\* (to the task store, to the forum) between passes.
MaxEvents == 3

\* Python's None and the empty string are both falsy; the code tests only that.
None == <<>>

(***************************************************************************)
(* Strings                                                                 *)
(***************************************************************************)
\* The characters of the task names in code-point order (upper before lower).
Alphabet == <<"S", "e", "h", "i", "p", "s", "t">>

CharRank(c) == CHOOSE n \in 1..Len(Alphabet) : Alphabet[n] = c

\* str.lower() on one character.
LowerChar(c) == IF c = "S" THEN "s" ELSE c

\* str.lower()
Lower(s) == [n \in 1..Len(s) |-> LowerChar(s[n])]

RECURSIVE StrLess(_, _)
\* Python's < on two strings: lexicographic by code point.
StrLess(a, b) ==
    IF b = <<>> THEN FALSE
    ELSE IF a = <<>> THEN TRUE
    ELSE IF a[1] # b[1] THEN CharRank(a[1]) < CharRank(b[1])
    ELSE StrLess(Tail(a), Tail(b))

Digits == <<"1", "2", "3", "4", "5", "6", "7", "8", "9">>

\* str(thread.id): the decimal string of a thread id.
StrOf(n) == <<Digits[n]>>

\* int(thread_id): the thread id a decimal string denotes.
IntOf(s) == CHOOSE n \in 1..Len(Digits) : <<Digits[n]>> = s

(***************************************************************************)
(* Dictionaries                                                            *)
(***************************************************************************)
\* dict.get(k): the value, or None.
Get(f, k) == IF k \in DOMAIN f THEN f[k] ELSE None

\* d[k] = v
Put(f, k, v) == [x \in (DOMAIN f) \cup {k} |-> IF x = k THEN v ELSE f[x]]

\* d.pop(k, None), for its effect on d.
Pop(f, k) == [x \in (DOMAIN f) \ {k} |-> f[x]]

EmptyDict == [x \in {} |-> None]

(***************************************************************************)
(* Tasks                                                                   *)
(***************************************************************************)
TaskIds == {"A", "B"}

TaskUuid == [A |-> <<"u", "a">>, B |-> <<"u", "b">>]
TaskLegacyId == [A |-> <<"i", "a">>, B |-> <<"i", "b">>]
TaskName == [A |-> <<"S", "e", "t">>, B |-> <<"s", "h", "i", "p">>]
TaskOrder == [A |-> 1, B |-> 1]

PRIORITY_EMOJIS ==
    ("Important" :> "red") @@ ("Moderately Important" :> "orange")
        @@ ("Not Important" :> "white") @@ ("default" :> "white")

\* A faulty variant of _priority_emoji with the marker of Important as default.
_priority_emoji_RedDefault(priority) ==
    IF priority \in DOMAIN PRIORITY_EMOJIS THEN PRIORITY_EMOJIS[priority] ELSE "red"

\* self.PRIORITY_EMOJIS.get(priority, default marker)
_priority_emoji(priority) ==
    IF priority \in DOMAIN PRIORITY_EMOJIS THEN PRIORITY_EMOJIS[priority] ELSE "white"

\* f"{emoji} {task.name}"
_get_thread_name(task) == <<_priority_emoji(task.colour), " ">> \o task.name

\* The rendered starter message, by the task fields it is rendered from.
_task_content(task) ==
    <<task.status, _priority_emoji(task.colour), task.colour, task.desc>>

\* (task.order, task.name.lower())
\* A faulty variant of _task_sort_key that compares the names as they are written.
_task_sort_key_CaseSensitive(task) == <<task.order, task.name>>

_task_sort_key(task) == <<task.order, Lower(task.name)>>

\* Python's < on two sort keys (tuples compare lexicographically).
KeyLess(a, b) == a[1] < b[1] \/ (a[1] = b[1] /\ StrLess(a[2], b[2]))

RECURSIVE Insert(_, _)
\* One step of a stable sort: x goes after every element whose key is not greater.
Insert(x, s) ==
    IF s = <<>> THEN <<x>>
    ELSE IF KeyLess(_task_sort_key(x), _task_sort_key(s[1])) THEN <<x>> \o s
    ELSE <<s[1]>> \o Insert(x, Tail(s))

RECURSIVE SortedBy(_, _)
\* sorted(tasks, key=self._task_sort_key), folded over the listing from the left.
SortedBy(listing, acc) ==
    IF listing = <<>> THEN acc
    ELSE SortedBy(Tail(listing), Insert(listing[1], acc))

\* task.uuid or task.id or task.name
TaskKey(task) ==
    IF task.uuid # <<>> THEN task.uuid
    ELSE IF task.id # <<>> THEN task.id
    ELSE task.name

RECURSIVE UuidToTaskFrom(_, _)
UuidToTaskFrom(ts, acc) ==
    IF ts = <<>> THEN acc
    ELSE UuidToTaskFrom(Tail(ts), Put(acc, TaskKey(ts[1]), ts[1]))

\* {(t.uuid or t.id or t.name): t for t in tasks}: a later task replaces an earlier one.
UuidToTask(ts) == UuidToTaskFrom(ts, EmptyDict)

(***************************************************************************)
(* State                                                                   *)
(***************************************************************************)
VARIABLES
    store,            \* the task store: task slot -> task record
    remote,           \* the forum: thread id -> thread (state, name, starter message)
    db,               \* the persisted mapping (get/save_task_thread_mappings)
    task_to_thread,   \* self.task_to_thread
    thread_to_task,   \* self.thread_to_task
    pc,               \* where the pass is
    tasks,            \* the pass's sorted task list
    live_threads,     \* the pass's thread index (thread ids)
    mappings_changed, \* the pass's dirty flag
    idx,              \* the main loop's position in tasks (1-based)
    pending,          \* what the running sweep still has to visit
    log,              \* the remote and persistence calls of the pass, in order
    start,            \* the mapping and the forum as the pass found them
    raised,           \* the pass ended by an exception
    events,           \* passes started and environment changes so far
    save_failed,      \* the instance's last pass ended with a save that failed
    peer,             \* a second service instance: its maps and its pass, parked
    listed,           \* what the forum's two thread listings return to a pass
    index,            \* the thread index built from them: thread id -> thread object
    script,           \* a run of scripts/offload_long_descriptions.py
    paste,            \* paste_service: the clock, _PASTE_RETRY_AFTER, the last call
    drain,            \* drain_log_events: the pending log events and a drain of them
    handler           \* the last call of a thread handler: what it read and wrote

vars == <<store, remote, db, task_to_thread, thread_to_task, pc, tasks,
          live_threads, mappings_changed, idx, pending, log, start, raised, events,
          save_failed, peer, listed, index, script, paste, drain, handler>>

\* What a step of the running instance's pass, or of its environment, leaves alone.
others == <<peer, listed, index, script, paste, drain, handler>>

ThreadIds == 1..MaxThreads

\* The control ids of a TaskView's children (discord_ui.buttons.TaskView).
TaskViewIds == {"complete", "configure"}

\* posts: the messages sent to the thread after its starter message.
NoThread ==
    [st |-> "none", name |-> <<>>, content |-> <<>>, components |-> {}, posts |-> <<>>]

Exists(rem, th) == th \in DOMAIN rem /\ rem[th].st \in {"live", "archived"}

\* The id the forum gives the next created thread; 0 when it hands out no more.
NextThreadId(rem) ==
    IF \E th \in ThreadIds : rem[th].st = "none"
    THEN CHOOSE th \in ThreadIds :
             rem[th].st = "none" /\ \A o \in ThreadIds : rem[o].st = "none" => th <= o
    ELSE 0

NoStart == [task_to_thread |-> EmptyDict, thread_to_task |-> EmptyDict,
            remote |-> [th \in {} |-> NoThread], loaded |-> FALSE]

Call(op, th, key, res) == [op |-> op, th |-> th, key |-> key, res |-> res]

NewTask(t, hasUuid, hasId, status) ==
    [slot |-> t,
     uuid |-> IF hasUuid THEN TaskUuid[t] ELSE <<>>,
     id |-> IF hasId THEN TaskLegacyId[t] ELSE <<>>,
     name |-> TaskName[t], order |-> TaskOrder[t], status |-> status,
     colour |-> "Not Important", desc |-> "d0", present |-> TRUE]

\* ForumSyncService() of a second process (a modal or button handler has its
\* own instance): its attributes, and the locals of the pass it is not running.
FreshInstance ==
    [task_to_thread |-> EmptyDict, thread_to_task |-> EmptyDict, pc |-> "idle",
     tasks |-> <<>>, live_threads |-> {}, mappings_changed |-> FALSE, idx |-> 0,
     pending |-> {}, log |-> <<>>, start |-> NoStart, raised |-> FALSE,
     save_failed |-> FALSE]

\* No listing taken and no index built.
NoListing == [cached |-> <<>>, active |-> <<>>, fetched |-> FALSE, built |-> FALSE]

\* The offload script is not running.
NoRun ==
    [pc |-> "off", confirm |-> FALSE, dry_run |-> TRUE, total_tasks |-> 0,
     task_count |-> 0, subtasks |-> 0, st |-> 0,
     offloaded_tasks |-> 0, offloaded_subtasks |-> 0, failed |-> 0,
     candidates |-> [task |-> 0, subtask |-> 0],
     writes |-> [task |-> 0, subtask |-> 0]]

\* paste_service as imported: _PASTE_RETRY_AFTER = 0.0, no call made yet.
NoPaste ==
    [pc |-> "off", now |-> 0, retry_after |-> 0, steps |-> 0, description |-> <<>>,
     result |-> <<>>, raised |-> FALSE, up |-> "na", suppressed |-> FALSE,
     uploads |-> 0, requests |-> 0, lookups |-> 0, failed_at |-> -1, wait |-> 0]

\* No pending log event and no drain running.
NoDrain ==
    [pc |-> "off", pending |-> {}, events |-> <<>>, i |-> 0, attempted |-> {},
     cleared |-> {}, added |-> 0, sent |-> <<>>, failed |-> {}, clears |-> 0,
     raised |-> FALSE]

\* No thread handler has been called.
NoHandler ==
    [op |-> "none", thread |-> 0, reads |-> {}, updates |-> {}, logged |-> FALSE,
     raised |-> FALSE]

\* ForumSyncService() on a fresh deployment: no thread, no mapping, open tasks;
\* task A may still lack its uuid, or its uuid and its id (the legacy schemes).
Init ==
    /\ \E u \in BOOLEAN, i \in BOOLEAN :
         store = [t \in TaskIds |->
                     IF t = "A" THEN NewTask(t, u, i, "Open")
                     ELSE NewTask(t, TRUE, TRUE, "Open")]
    /\ remote = [th \in ThreadIds |-> NoThread]
    /\ db = [task_to_thread |-> EmptyDict, thread_to_task |-> EmptyDict]
    /\ task_to_thread = EmptyDict
    /\ thread_to_task = EmptyDict
    /\ pc = "idle"
    /\ tasks = <<>>
    /\ live_threads = {}
    /\ mappings_changed = FALSE
    /\ idx = 0
    /\ pending = {}
    /\ log = <<>>
    /\ start = NoStart
    /\ raised = FALSE
    /\ events = 0
    /\ save_failed = FALSE
    /\ peer = FreshInstance
    /\ listed = NoListing
    /\ index = EmptyDict
    /\ script = NoRun
    /\ paste = NoPaste
    /\ drain = NoDrain
    /\ handler = NoHandler

(***************************************************************************)
(* The pass: sync_from_database                                            *)
(***************************************************************************)
\* _load_mappings: the persisted maps, or the maps the instance already holds
\* when reading them raises (the except clause only logs).
_load_mappings(ok) ==
    IF ok THEN db
    ELSE [task_to_thread |-> task_to_thread, thread_to_task |-> thread_to_task]

\* The forum channel of the pass and another channel of the guild.
ForumChannel == "forum"
OtherChannel == "other"

RECURSIVE IndexThreads(_, _)
\* live_threads[t.id] = t for each thread of the listing, in its order.
IndexThreads(listing, acc) ==
    IF listing = <<>> THEN acc
    ELSE IndexThreads(Tail(listing), Put(acc, listing[1].id, listing[1]))

\* [t for t in active_threads if t.parent_id == forum_channel.id]
OfForum(listing) == SelectSeq(listing, LAMBDA t : t.parent = ForumChannel)

\* A faulty variant of LiveThreads that takes the guild's active threads of
\* every channel.
LiveThreads_NoFilter(cached, active, fetched) ==
    LET from_cache == IndexThreads(cached, EmptyDict)
    IN  IF fetched THEN IndexThreads(active, from_cache) ELSE from_cache

\* live_threads as thread id -> thread object: the channel's cached threads,
\* overwritten by the guild's active threads of this channel when fetching
\* them succeeds; the cached threads alone when it raises.
LiveThreads(cached, active, fetched) ==
    LET from_cache == IndexThreads(cached, EmptyDict)
    IN  IF fetched THEN IndexThreads(OfForum(active), from_cache) ELSE from_cache

\* The thread index: the channel's cached threads, then the guild's active threads
\* of this channel when fetching them succeeds.
BuildIndex(cached, active, fetched) == cached \cup (IF fetched THEN active ELSE {})

Permutations2(S) ==
    {q \in [1..Cardinality(S) -> S] : \A a, b \in DOMAIN q : a # b => q[a] # q[b]}

\* task_service.get_all_tasks(), in any listing order.
Listings ==
    LET present == {t \in TaskIds : store[t].present}
    IN  {[n \in DOMAIN q |-> store[q[n]]] : q \in Permutations2(present)}

\* The start of a pass: the mapping is reloaded (ok: reading it succeeds), the
\* tasks are listed and sorted, the thread index is built, the dirty flag is reset.
BeginPass(ok, listing, cached, active, fetched) ==
    LET m == _load_mappings(ok)
    IN  /\ task_to_thread' = m.task_to_thread
        /\ thread_to_task' = m.thread_to_task
        /\ tasks' = SortedBy(listing, <<>>)
        /\ live_threads' = BuildIndex(cached, active, fetched)
        /\ start' = [task_to_thread |-> m.task_to_thread,
                     thread_to_task |-> m.thread_to_task,
                     remote |-> remote, loaded |-> ok]
        /\ mappings_changed' = FALSE
        /\ idx' = 1
        /\ pending' = {}
        /\ log' = <<>>
        /\ raised' = FALSE
        /\ pc' = "main"
        /\ UNCHANGED <<store, remote, db>>

\* The threads of the forum a listing can return.
LiveNow == {th \in ThreadIds : remote[th].st = "live"}

StartPass ==
    /\ pc = "idle"
    /\ events < MaxEvents
    /\ events' = events + 1
    /\ \E ok \in BOOLEAN, listing \in Listings, fetched \in BOOLEAN :
       \E cached \in SUBSET LiveNow : \E active \in SUBSET LiveNow :
         BeginPass(ok, listing, cached, active, fetched)
    /\ UNCHANGED <<save_failed, others>>

\* The first of task.id, task.name that is a key of the mapping, or None.
LegacyKey(ttt, task) ==
    IF task.id # <<>> /\ task.id \in DOMAIN ttt THEN task.id
    ELSE IF task.name # <<>> /\ task.name \in DOMAIN ttt THEN task.name
    ELSE None

\* A faulty variant of MigrateLegacy that adds the entry under the task's key
\* and leaves the legacy entry in place.
MigrateLegacy_KeepOld(ttt, thr, chg, task) ==
    LET task_uuid == TaskKey(task)
        thread_id == Get(ttt, task_uuid)
        legacy_key == LegacyKey(ttt, task)
    IN  IF thread_id # None \/ legacy_key = None
        THEN [ttt |-> ttt, thr |-> thr, chg |-> chg, thread_id |-> thread_id]
        ELSE [ttt |-> Put(ttt, task_uuid, ttt[legacy_key]),
              thr |-> Put(thr, ttt[legacy_key], task_uuid),
              chg |-> TRUE,
              thread_id |-> ttt[legacy_key]]

\* Key resolution: the thread id under the task's key, else under a legacy key,
\* whose entry is then rewritten under the task's key.
MigrateLegacy(ttt, thr, chg, task) ==
    LET task_uuid == TaskKey(task)
        thread_id == Get(ttt, task_uuid)
        legacy_key == LegacyKey(ttt, task)
    IN  IF thread_id # None \/ legacy_key = None
        THEN [ttt |-> ttt, thr |-> thr, chg |-> chg, thread_id |-> thread_id]
        ELSE [ttt |-> Put(Pop(ttt, legacy_key), task_uuid, ttt[legacy_key]),
              thr |-> Put(thr, ttt[legacy_key], task_uuid),
              chg |-> TRUE,
              thread_id |-> ttt[legacy_key]]

\* What resolving thread_id can give: "none" (no id known), "hit" (in the index),
\* or the outcome of bot.fetch_channel, which can succeed only for a thread that exists.
ResolveOutcomes(thread_id) ==
    IF thread_id = None THEN {"none"}
    ELSE IF IntOf(thread_id) \in live_threads THEN {"hit"}
    ELSE IF Exists(remote, IntOf(thread_id)) THEN {"ok", "error"}
    ELSE {"error"}

\* isinstance(thread, discord.Thread) after the lookup and the fetch.
Resolved(f) == f \in {"hit", "ok"}

NA == [del |-> "na", arch |-> "na", create |-> "na", rename |-> "na",
       fmsg |-> "na", edit |-> "na", post |-> "na"]

\* Outcomes of thread.delete() and, after Forbidden, thread.edit(archived, locked).
RemovalOutcomes(rem, th) ==
    IF Exists(rem, th)
    THEN {[NA EXCEPT !.del = "ok"], [NA EXCEPT !.del = "error"],
          [NA EXCEPT !.del = "forbidden", !.arch = "ok"],
          [NA EXCEPT !.del = "forbidden", !.arch = "error"]}
    ELSE {[NA EXCEPT !.del = "error"]}

\* delete, else archive and lock on Forbidden: the forum, the calls, and removed.
TryRemove(rem, lg, th, key, o) ==
    LET lg1 == Append(lg, Call("delete", th, key, o.del))
    IN  IF o.del = "ok"
        THEN [rem |-> [rem EXCEPT ![th] = [NoThread EXCEPT !.st = "deleted"]],
              log |-> lg1, removed |-> TRUE]
        ELSE IF o.del = "forbidden"
        THEN [rem |-> IF o.arch = "ok" THEN [rem EXCEPT ![th].st = "archived"] ELSE rem,
              log |-> Append(lg1, Call("archive", th, key, o.arch)),
              removed |-> (o.arch = "ok")]
        ELSE [rem |-> rem, log |-> lg1, removed |-> FALSE]

\* The mapping without the entry of a removed thread: both directions go.
ClearMapping(ttt, thr, key, thread_id) ==
    [ttt |-> Pop(ttt, key),
     thr |-> IF thread_id # None THEN Pop(thr, thread_id) ELSE thr]

\* A faulty variant of NeedsEdit that compares the content and ignores the controls.
NeedsEdit_ContentOnly(msg, content, expected_ids) == msg.content # content

\* starter_message.content != content or not has_components or view_changed
NeedsEdit(msg, content, expected_ids) ==
    LET has_components == msg.components # {}
        actual_ids == msg.components
        view_changed == expected_ids # actual_ids
    IN  msg.content # content \/ ~has_components \/ view_changed

\* A faulty variant of NeedsRename that renames in every pass.
NeedsRename_Always(thread, thread_name) == TRUE

\* thread.name != thread_name
NeedsRename(thread, thread_name) == thread.name # thread_name

\* Outcomes of forum_channel.create_thread.
CreateOutcomes(rem) ==
    {[NA EXCEPT !.create = c] :
        c \in IF NextThreadId(rem) # 0 THEN {"ok", "error"} ELSE {"error"}}

\* A faulty variant of Fallback that posts only when the fetch fails.
Fallback_FetchOnly(o) == o.fmsg = "error"

\* The except clause around the fetch and the edit of the starter message is
\* entered: one of the two raised.
Fallback(o) == o.fmsg = "error" \/ o.edit = "error"

\* Outcomes of the rename, the starter-message fetch, its edit and the fallback
\* post, each "na" when the code does not make the call.
UpdateOutcomes(rem, th, task) ==
    LET ex == Exists(rem, th)
        ren == IF ~NeedsRename(rem[th], _get_thread_name(task)) THEN {"na"}
               ELSE IF ex THEN {"ok", "forbidden", "error"} ELSE {"error"}
        fm == IF ex THEN {"ok", "error"} ELSE {"error"}
        all == {[NA EXCEPT !.rename = r, !.fmsg = m, !.edit = e, !.post = q] :
                   r \in ren, m \in fm, e \in {"na", "ok", "error"},
                   q \in {"na", "ok", "error"}}
    IN  {o \in all :
            LET need == o.fmsg = "ok"
                            /\ NeedsEdit(rem[th], _task_content(task), TaskViewIds)
                fallback == Fallback(o)
            IN  /\ (o.edit = "na") <=> ~need
                /\ (o.post = "na") <=> ~fallback
                /\ (o.post = "ok") => ex}

\* A faulty variant of CompleteTask that keeps the entry of a thread it could
\* not resolve.
CompleteTask_KeepUnresolved(task, mig, f, lg, o) ==
    LET task_uuid == TaskKey(task)
        th == IntOf(mig.thread_id)
        rm == IF Resolved(f) THEN TryRemove(remote, lg, th, task_uuid, o)
              ELSE [rem |-> remote, log |-> lg, removed |-> FALSE]
        cl == ClearMapping(mig.ttt, mig.thr, task_uuid, mig.thread_id)
    IN  [ttt |-> IF rm.removed THEN cl.ttt ELSE mig.ttt,
         thr |-> IF rm.removed THEN cl.thr ELSE mig.thr,
         chg |-> (mig.chg \/ rm.removed),
         rem |-> rm.rem, log |-> rm.log, raised |-> FALSE]

\* The Complete branch of the main loop.
CompleteTask(task, mig, f, lg, o) ==
    LET task_uuid == TaskKey(task)
        th == IntOf(mig.thread_id)
        rm == IF Resolved(f) THEN TryRemove(remote, lg, th, task_uuid, o)
              ELSE [rem |-> remote, log |-> lg, removed |-> mig.thread_id # None]
        cl == ClearMapping(mig.ttt, mig.thr, task_uuid, mig.thread_id)
    IN  [ttt |-> IF rm.removed THEN cl.ttt ELSE mig.ttt,
         thr |-> IF rm.removed THEN cl.thr ELSE mig.thr,
         chg |-> (mig.chg \/ rm.removed),
         rem |-> rm.rem, log |-> rm.log, raised |-> FALSE]

\* No thread resolved for a task that is not Complete: create one and map it.
CreateThread(task, mig, lg, o) ==
    LET task_uuid == TaskKey(task)
        th == NextThreadId(remote)
    IN  IF o.create = "ok"
        THEN [ttt |-> Put(mig.ttt, task_uuid, StrOf(th)),
              thr |-> Put(mig.thr, StrOf(th), task_uuid),
              chg |-> TRUE,
              rem |-> [remote EXCEPT ![th] =
                          [st |-> "live", name |-> _get_thread_name(task),
                           content |-> _task_content(task),
                           components |-> TaskViewIds, posts |-> <<>>]],
              log |-> Append(lg, Call("create", th, task_uuid, "ok")),
              raised |-> FALSE]
        ELSE [ttt |-> mig.ttt, thr |-> mig.thr, chg |-> mig.chg, rem |-> remote,
              log |-> Append(lg, Call("create", 0, task_uuid, "error")),
              raised |-> TRUE]

\* A resolved thread of a task that is not Complete: rename on a name mismatch,
\* edit the starter message on a difference, post when it cannot be read or edited.
UpdateThread(task, mig, th, lg, o) ==
    LET task_uuid == TaskKey(task)
        thread_name == _get_thread_name(task)
        content == _task_content(task)
        lg1 == IF o.rename = "na" THEN lg
               ELSE Append(lg, Call("rename", th, task_uuid, o.rename))
        rem1 == IF o.rename = "ok" THEN [remote EXCEPT ![th].name = thread_name]
                ELSE remote
        lg2 == Append(lg1, Call("fetch_message", th, task_uuid, o.fmsg))
        lg3 == IF o.edit = "na" THEN lg2
               ELSE Append(lg2, Call("edit", th, task_uuid, o.edit))
        rem2 == IF o.edit = "ok"
                THEN [rem1 EXCEPT ![th].content = content,
                                  ![th].components = TaskViewIds]
                ELSE rem1
        lg4 == IF o.post = "na" THEN lg3
               ELSE Append(lg3, Call("post", th, task_uuid, o.post))
        rem3 == IF o.post = "ok" THEN [rem2 EXCEPT ![th].posts = Append(@, content)]
                ELSE rem2
    IN  [ttt |-> mig.ttt, thr |-> mig.thr, chg |-> mig.chg, rem |-> rem3,
         log |-> lg4, raised |-> (o.post = "error")]

\* The outcomes the branch taken for this task can meet.
BranchOutcomes(task, mig, f) ==
    IF task.status = "Complete"
    THEN IF Resolved(f) THEN RemovalOutcomes(remote, IntOf(mig.thread_id)) ELSE {NA}
    ELSE IF Resolved(f) THEN UpdateOutcomes(remote, IntOf(mig.thread_id), task)
    ELSE CreateOutcomes(remote)

\* One iteration of the main loop, for `task`, with the remote outcomes f and o.
MainTask(task, f, o) ==
    LET mig == MigrateLegacy(task_to_thread, thread_to_task, mappings_changed, task)
        lg == IF f \in {"ok", "error"}
              THEN Append(log, Call("fetch", IntOf(mig.thread_id), TaskKey(task), f))
              ELSE log
    IN  IF task.status = "Complete" THEN CompleteTask(task, mig, f, lg, o)
        ELSE IF ~Resolved(f) THEN CreateThread(task, mig, lg, o)
        ELSE UpdateThread(task, mig, IntOf(mig.thread_id), lg, o)

\* list(live_threads.items())
ReverseItems == {[key |-> None, tid |-> StrOf(th)] : th \in live_threads}

MainStep ==
    /\ pc = "main"
    /\ IF idx > Len(tasks)
       THEN /\ pc' = "reverse"
            /\ pending' = ReverseItems
            /\ UNCHANGED <<task_to_thread, thread_to_task, mappings_changed, remote,
                           log, raised, idx>>
       ELSE LET task == tasks[idx]
                mig == MigrateLegacy(task_to_thread, thread_to_task,
                                     mappings_changed, task)
            IN  \E f \in ResolveOutcomes(mig.thread_id) :
                \E o \in BranchOutcomes(task, mig, f) :
                  LET r == MainTask(task, f, o)
                  IN  /\ task_to_thread' = r.ttt
                      /\ thread_to_task' = r.thr
                      /\ mappings_changed' = r.chg
                      /\ remote' = r.rem
                      /\ log' = r.log
                      /\ raised' = r.raised
                      /\ pc' = IF r.raised THEN "done" ELSE "main"
                      /\ idx' = idx + 1
                      /\ pending' = pending
    /\ UNCHANGED <<store, db, tasks, live_threads, start, events>>
    /\ UNCHANGED <<save_failed, others>>

\* list(self.task_to_thread.items())
OrphanItems == {[key |-> k, tid |-> task_to_thread[k]] : k \in DOMAIN task_to_thread}

\* A faulty variant of ReverseHit that takes every indexed thread that is mapped
\* to a task of the pass, whatever the task's status.
ReverseHit_AnyStatus(item) ==
    LET mapped_uuid == Get(thread_to_task, item.tid)
        uuid_to_task == UuidToTask(tasks)
    IN  /\ mapped_uuid # None
        /\ mapped_uuid \in DOMAIN uuid_to_task

\* The reverse-scan's verdict on one indexed thread: its mapped task is Complete.
ReverseHit(item) ==
    LET mapped_uuid == Get(thread_to_task, item.tid)
        uuid_to_task == UuidToTask(tasks)
    IN  /\ mapped_uuid # None
        /\ mapped_uuid \in DOMAIN uuid_to_task
        /\ uuid_to_task[mapped_uuid].status = "Complete"

\* One iteration of the reverse-scan, for the indexed thread `item`.
ReverseTask(item, o) ==
    LET mapped_uuid == Get(thread_to_task, item.tid)
        rm == TryRemove(remote, log, IntOf(item.tid), mapped_uuid, o)
    IN  [ttt |-> IF rm.removed THEN Pop(task_to_thread, mapped_uuid)
                 ELSE task_to_thread,
         thr |-> IF rm.removed THEN Pop(thread_to_task, item.tid) ELSE thread_to_task,
         chg |-> (mappings_changed \/ rm.removed),
         rem |-> rm.rem, log |-> rm.log]

\* The item of the sweep's snapshot that the loop visits first (the sweeps'
\* iterations do not depend on each other; the lowest thread id goes first).
First(items) ==
    CHOOSE item \in items : \A o \in items : IntOf(item.tid) <= IntOf(o.tid)

\* The reverse-scan up to its next remote call: the threads it passes over are
\* dropped, the first thread whose task is Complete is removed; with none left
\* the orphan sweep begins.
ReverseStep ==
    /\ pc = "reverse"
    /\ LET hits == {item \in pending : ReverseHit(item)}
       IN  IF hits = {}
           THEN /\ pc' = "orphan"
                /\ pending' = OrphanItems
                /\ UNCHANGED <<task_to_thread, thread_to_task, mappings_changed,
                               remote, log>>
           ELSE LET item == First(hits)
                IN  \E o \in RemovalOutcomes(remote, IntOf(item.tid)) :
                      LET r == ReverseTask(item, o)
                      IN  /\ task_to_thread' = r.ttt
                          /\ thread_to_task' = r.thr
                          /\ mappings_changed' = r.chg
                          /\ remote' = r.rem
                          /\ log' = r.log
                          /\ pending' = {p \in pending :
                                            IntOf(p.tid) > IntOf(item.tid)}
                          /\ pc' = pc
    /\ UNCHANGED <<store, db, tasks, live_threads, idx, start, raised, events>>
    /\ UNCHANGED <<save_failed, others>>

\* The orphan sweep's verdict on one mapping entry: its key is no task's key.
IsOrphan(item) == item.key \notin DOMAIN UuidToTask(tasks)

\* What resolving an orphan's thread can give: "hit", or the outcome of fetch_channel.
OrphanResolveOutcomes(item) ==
    IF IntOf(item.tid) \in live_threads THEN {"hit"}
    ELSE IF Exists(remote, IntOf(item.tid)) THEN {"ok", "error"}
    ELSE {"error"}

\* One iteration of the orphan sweep, for the mapping entry `item`.
OrphanTask(item, f, o) ==
    LET th == IntOf(item.tid)
        lg == IF f = "hit" THEN log ELSE Append(log, Call("fetch", th, item.key, f))
        rm == IF Resolved(f) THEN TryRemove(remote, lg, th, item.key, o)
              ELSE [rem |-> remote, log |-> lg, removed |-> TRUE]
    IN  [ttt |-> IF rm.removed THEN Pop(task_to_thread, item.key) ELSE task_to_thread,
         thr |-> IF rm.removed THEN Pop(thread_to_task, item.tid) ELSE thread_to_task,
         chg |-> (mappings_changed \/ rm.removed),
         rem |-> rm.rem, log |-> rm.log]

\* The orphan sweep up to its next remote call or stale entry: the entries of
\* present tasks are passed over, the first orphan is resolved and removed; with
\* none left the pass goes on to save.
OrphanStep ==
    /\ pc = "orphan"
    /\ LET hits == {item \in pending : IsOrphan(item)}
       IN  IF hits = {}
           THEN /\ pc' = "save"
                /\ pending' = {}
                /\ UNCHANGED <<task_to_thread, thread_to_task, mappings_changed,
                               remote, log>>
           ELSE LET item == First(hits)
                IN  \E f \in OrphanResolveOutcomes(item) :
                    \E o \in IF Resolved(f)
                             THEN RemovalOutcomes(remote, IntOf(item.tid))
                             ELSE {NA} :
                      LET r == OrphanTask(item, f, o)
                      IN  /\ task_to_thread' = r.ttt
                          /\ thread_to_task' = r.thr
                          /\ mappings_changed' = r.chg
                          /\ remote' = r.rem
                          /\ log' = r.log
                          /\ pending' = hits \ {item}
                          /\ pc' = pc
    /\ UNCHANGED <<store, db, tasks, live_threads, idx, start, raised, events>>
    /\ UNCHANGED <<save_failed, others>>

\* dict(a, **b): the entries of b, and those of a under other keys.
Merged(a, b) == [k \in (DOMAIN a) \cup (DOMAIN b) |-> IF k \in DOMAIN b THEN b[k] ELSE a[k]]

\* A faulty variant of _save_mappings that merges into what is persisted
\* instead of overwriting it.
_save_mappings_Merge(ok) ==
    IF ok THEN [task_to_thread |-> Merged(db.task_to_thread, task_to_thread),
                thread_to_task |-> Merged(db.thread_to_task, thread_to_task)]
    ELSE db

\* _save_mappings: the persisted maps become the instance's, unless writing raises.
_save_mappings(ok) ==
    IF ok THEN [task_to_thread |-> task_to_thread, thread_to_task |-> thread_to_task]
    ELSE db

\* A faulty variant of ShouldSave that saves at the end of every pass.
ShouldSave_Always == TRUE

\* if mappings_changed: self._save_mappings()
ShouldSave == mappings_changed

\* The end of the pass: save once when dirty, then return.
FinishPass ==
    /\ pc = "save"
    /\ IF ShouldSave
       THEN \E ok \in BOOLEAN :
              /\ db' = _save_mappings(ok)
              /\ log' = Append(log, Call("save", 0, None, IF ok THEN "ok" ELSE "error"))
       ELSE UNCHANGED <<db, log>>
    /\ pc' = "done"
    /\ UNCHANGED <<store, remote, task_to_thread, thread_to_task, tasks, live_threads,
                   mappings_changed, idx, pending, start, raised, events>>
    /\ UNCHANGED <<save_failed, others>>

\* sync_from_database has returned or raised: its locals are gone.
PassReturn ==
    /\ pc = "done"
    /\ pc' = "idle"
    /\ tasks' = <<>>
    /\ live_threads' = {}
    /\ mappings_changed' = FALSE
    /\ idx' = 0
    /\ pending' = {}
    /\ log' = <<>>
    /\ start' = NoStart
    /\ raised' = FALSE
    /\ UNCHANGED <<store, remote, db, task_to_thread, thread_to_task, events>>
    /\ save_failed' = \E n \in DOMAIN log : log[n].op = "save" /\ log[n].res = "error"
    /\ UNCHANGED others

(***************************************************************************)
(* The environment, between passes                                         *)
(***************************************************************************)
\* The task store changes one task: its uuid is backfilled, it is completed,
\* its priority is edited, or it is deleted.
TaskChanges(task) ==
    (IF task.uuid = <<>> THEN {[task EXCEPT !.uuid = TaskUuid[task.slot]]} ELSE {})
    \cup (IF task.status # "Complete" THEN {[task EXCEPT !.status = "Complete"]} ELSE {})
    \cup (IF task.colour # "Important" THEN {[task EXCEPT !.colour = "Important"]} ELSE {})
    \cup {[task EXCEPT !.present = FALSE]}

EnvTask ==
    /\ pc = "idle"
    /\ events < MaxEvents
    /\ \E t \in TaskIds :
         /\ store[t].present
         /\ \E new \in TaskChanges(store[t]) : store' = [store EXCEPT ![t] = new]
    /\ events' = events + 1
    /\ UNCHANGED <<remote, db, task_to_thread, thread_to_task, pc, tasks, live_threads,
                   mappings_changed, idx, pending, log, start, raised>>
    /\ UNCHANGED <<save_failed, others>>

\* The forum changes one thread out of band: it is deleted, or its starter
\* message loses its controls or carries those of an older view layout.
ThreadChanges(thread) ==
    {[NoThread EXCEPT !.st = "deleted"],
     [thread EXCEPT !.components = {}],
     [thread EXCEPT !.components = {"complete"}]} \ {thread}

EnvThread ==
    /\ pc = "idle"
    /\ events < MaxEvents
    /\ \E th \in ThreadIds :
         /\ remote[th].st = "live"
         /\ \E new \in ThreadChanges(remote[th]) : remote' = [remote EXCEPT ![th] = new]
    /\ events' = events + 1
    /\ UNCHANGED <<store, db, task_to_thread, thread_to_task, pc, tasks, live_threads,
                   mappings_changed, idx, pending, log, start, raised>>
    /\ UNCHANGED <<save_failed, others>>

Next ==
    \/ StartPass
    \/ MainStep
    \/ ReverseStep
    \/ OrphanStep
    \/ FinishPass
    \/ PassReturn
    \/ EnvTask
    \/ EnvThread

Spec == Init /\ [][Next]_vars

(***************************************************************************)
(* Passes that go on after the failures and the changes have stopped       *)
(***************************************************************************)
\* The task store and the forum no longer change and no call fails any more.
Healthy == events > MaxEvents

\* The calls the step being taken adds to the log all succeed; a fetch by id may
\* still answer that the thread does not exist.
AllCallsOk ==
    \A n \in (DOMAIN log') \ (DOMAIN log) :
        \/ log'[n].res = "ok"
        \/ log'[n].op = "fetch" /\ ~Exists(remote, log'[n].th)

\* A pass starts once the event budget is used up: the load succeeds and the
\* index holds every live thread of the forum.
StartHealthyPass ==
    /\ pc = "idle"
    /\ events >= MaxEvents
    /\ events' = MaxEvents + 1
    /\ \E listing \in Listings : BeginPass(TRUE, listing, LiveNow, LiveNow, TRUE)
    /\ UNCHANGED <<save_failed, others>>

LiveMain == MainStep /\ (Healthy => AllCallsOk)

LiveReverse == ReverseStep /\ (Healthy => AllCallsOk)

LiveOrphan == OrphanStep /\ (Healthy => AllCallsOk)

LiveFinish == FinishPass /\ (Healthy => AllCallsOk)

\* The steps of the sync loop, which runs pass after pass.
PassSteps ==
    \/ StartPass
    \/ StartHealthyPass
    \/ LiveMain
    \/ LiveReverse
    \/ LiveOrphan
    \/ LiveFinish
    \/ PassReturn

NextLive ==
    \/ EnvTask
    \/ EnvThread
    \/ PassSteps

\* The sync loop keeps running passes, and a pass that can take its next step
\* takes it.
SpecLive == Init /\ [][NextLive]_vars /\ WF_vars(PassSteps)

(***************************************************************************)
(* Passes over a forum that is already in use                              *)
(***************************************************************************)
\* The thread a pass created for the task when the task was new.
CreatedThread(t) ==
    [st |-> "live", name |-> _get_thread_name(NewTask(t, TRUE, TRUE, "Open")),
     content |-> _task_content(NewTask(t, TRUE, TRUE, "Open")),
     components |-> TaskViewIds, posts |-> <<>>]

\* The thread id the forum gave the task's thread.
ThreadOf == [A |-> 1, B |-> 2]

\* The mapping that earlier passes saved: task A's entry may still be under
\* the key it had before its uuid was backfilled.
SavedMapping(mapped, keyOf) ==
    [task_to_thread |-> [k \in {keyOf[t] : t \in mapped} |->
                            StrOf(ThreadOf[CHOOSE t \in mapped : keyOf[t] = k])],
     thread_to_task |-> [v \in {StrOf(ThreadOf[t]) : t \in mapped} |->
                            keyOf[CHOOSE t \in mapped : StrOf(ThreadOf[t]) = v]]]

\* The mapping after a pass failed to fetch the task's thread and created a
\* second one: the task's entry points to the new thread, and both threads
\* have an entry in thread_to_task.
WithSecondThread(saved, key, th) ==
    [task_to_thread |-> Put(saved.task_to_thread, key, StrOf(th)),
     thread_to_task |-> Put(saved.thread_to_task, StrOf(th), key)]

\* The service is started on a store and a forum that earlier passes have
\* worked on: some tasks have their thread and their saved mapping entry,
\* task A may have a second thread, and tasks have since been completed or
\* had their priority edited.
InitDeployed ==
    /\ \E u \in BOOLEAN, i \in BOOLEAN, legacy \in BOOLEAN, mapped \in SUBSET TaskIds,
          second \in BOOLEAN,
          status \in [TaskIds -> {"Open", "Complete"}],
          colour \in [TaskIds -> {"Not Important", "Important"}] :
         LET now == [t \in TaskIds |->
                        [NewTask(t, t = "A" => u, t = "A" => i, status[t])
                            EXCEPT !.colour = colour[t]]]
             keyOf == [t \in TaskIds |->
                          IF t = "A" /\ legacy
                          THEN TaskKey([now[t] EXCEPT !.uuid = <<>>])
                          ELSE TaskKey(now[t])]
             twice == second /\ mapped = {"A"}
             owner == [th \in ThreadIds |->
                          IF \E t \in mapped : ThreadOf[t] = th
                          THEN CHOOSE t \in mapped : ThreadOf[t] = th
                          ELSE IF twice /\ th = ThreadOf["B"] THEN "A"
                          ELSE "none"]
             saved == IF twice
                      THEN WithSecondThread(SavedMapping(mapped, keyOf), keyOf["A"],
                                            ThreadOf["B"])
                      ELSE SavedMapping(mapped, keyOf)
         IN  /\ store = now
             /\ remote = [th \in ThreadIds |->
                            IF owner[th] = "none" THEN NoThread
                            ELSE CreatedThread(owner[th])]
             /\ db = saved
             /\ task_to_thread = saved.task_to_thread
             /\ thread_to_task = saved.thread_to_task
    /\ pc = "idle"
    /\ tasks = <<>>
    /\ live_threads = {}
    /\ mappings_changed = FALSE
    /\ idx = 0
    /\ pending = {}
    /\ log = <<>>
    /\ start = NoStart
    /\ raised = FALSE
    /\ events = MaxEvents - 1
    /\ save_failed = FALSE
    /\ peer = FreshInstance
    /\ listed = NoListing
    /\ index = EmptyDict
    /\ script = NoRun
    /\ paste = NoPaste
    /\ drain = NoDrain
    /\ handler = NoHandler

SpecDeployed == InitDeployed /\ [][Next]_vars

(***************************************************************************)
(* Passes over a mapping that holds two keys of one task                   *)
(***************************************************************************)
\* The persisted mapping holds task A's thread under its uuid and also an
\* entry under A's legacy id or name, which points to the same thread or to
\* a second one; task B is open and may have its thread.
InitTwoKeys ==
    /\ \E legacy \in {TaskLegacyId["A"], TaskName["A"]}, same \in BOOLEAN,
          withB \in BOOLEAN, status \in {"Open", "Complete"} :
         LET a == NewTask("A", TRUE, TRUE, status)
             other == IF same THEN ThreadOf["A"] ELSE ThreadOf["B"]
             mapB == withB /\ same
             ttt0 == Put(Put(EmptyDict, a.uuid, StrOf(ThreadOf["A"])), legacy, StrOf(other))
             thr0 == Put(Put(EmptyDict, StrOf(ThreadOf["A"]), a.uuid), StrOf(other),
                         IF same THEN a.uuid ELSE legacy)
             saved == [task_to_thread |->
                          IF mapB THEN Put(ttt0, TaskUuid["B"], StrOf(ThreadOf["B"])) ELSE ttt0,
                       thread_to_task |->
                          IF mapB THEN Put(thr0, StrOf(ThreadOf["B"]), TaskUuid["B"]) ELSE thr0]
         IN  /\ store = [t \in TaskIds |->
                           IF t = "A" THEN a ELSE NewTask(t, TRUE, TRUE, "Open")]
             /\ remote = [th \in ThreadIds |->
                            IF th = ThreadOf["A"] \/ ~same THEN CreatedThread("A")
                            ELSE IF mapB THEN CreatedThread("B")
                            ELSE NoThread]
             /\ db = saved
             /\ task_to_thread = saved.task_to_thread
             /\ thread_to_task = saved.thread_to_task
    /\ pc = "idle"
    /\ tasks = <<>>
    /\ live_threads = {}
    /\ mappings_changed = FALSE
    /\ idx = 0
    /\ pending = {}
    /\ log = <<>>
    /\ start = NoStart
    /\ raised = FALSE
    /\ events = MaxEvents - 1
    /\ save_failed = FALSE
    /\ peer = FreshInstance
    /\ listed = NoListing
    /\ index = EmptyDict
    /\ script = NoRun
    /\ paste = NoPaste
    /\ drain = NoDrain
    /\ handler = NoHandler

SpecTwoKeys == InitTwoKeys /\ [][Next]_vars

(***************************************************************************)
(* One pass over any task set                                              *)
(***************************************************************************)
\* Task names that tie when lower-cased ("Set", "set") and a name that sorts
\* before them only when they are lower-cased ("pet").
SortNames == {<<"S", "e", "t">>, <<"s", "e", "t">>, <<"p", "e", "t">>}

SortOrders == {1, 2}

\* A deployment with no thread and no mapping whose two tasks have any of the
\* names, orders, priorities and statuses; one pass of it is followed.
InitSort ==
    /\ \E nm \in [TaskIds -> SortNames], od \in [TaskIds -> SortOrders],
          cl \in [TaskIds -> {"Important", "Not Important"}],
          st \in [TaskIds -> {"Open", "Complete"}] :
         store = [t \in TaskIds |->
                     [NewTask(t, TRUE, TRUE, st[t]) EXCEPT
                         !.name = nm[t], !.order = od[t], !.colour = cl[t]]]
    /\ remote = [th \in ThreadIds |-> NoThread]
    /\ db = [task_to_thread |-> EmptyDict, thread_to_task |-> EmptyDict]
    /\ task_to_thread = EmptyDict
    /\ thread_to_task = EmptyDict
    /\ pc = "idle"
    /\ tasks = <<>>
    /\ live_threads = {}
    /\ mappings_changed = FALSE
    /\ idx = 0
    /\ pending = {}
    /\ log = <<>>
    /\ start = NoStart
    /\ raised = FALSE
    /\ events = MaxEvents - 1
    /\ save_failed = FALSE
    /\ peer = FreshInstance
    /\ listed = NoListing
    /\ index = EmptyDict
    /\ script = NoRun
    /\ paste = NoPaste
    /\ drain = NoDrain
    /\ handler = NoHandler

NextSort ==
    \/ StartPass
    \/ MainStep
    \/ ReverseStep
    \/ OrphanStep
    \/ FinishPass
    \/ PassReturn

SpecSort == InitSort /\ [][NextSort]_vars

(***************************************************************************)
(* Building the thread index                                               *)
(***************************************************************************)
\* A thread object as a listing returns it.
ThreadObject(id, parent, origin) == [id |-> id, parent |-> parent, origin |-> origin]

\* The listings of at most MaxThreads distinct threads whose objects are in S.
ListingsOf(S) ==
    UNION {{q \in [1..n -> S] : \A a, b \in 1..n : a # b => q[a].id # q[b].id} :
              n \in 0..MaxThreads}

\* forum_channel.threads: cached thread objects of the forum channel.
CachedListings ==
    ListingsOf({ThreadObject(id, ForumChannel, "cached") : id \in ThreadIds})

\* guild.fetch_active_threads(): fresh thread objects of any channel of the guild.
ActiveListings ==
    ListingsOf({ThreadObject(id, p, "active") :
                   id \in ThreadIds, p \in {ForumChannel, OtherChannel}})

\* A pass is about to build its index from what the two listings return;
\* `fetched` is whether fetching the active threads succeeds.
InitIndex ==
    /\ \E c \in CachedListings, a \in ActiveListings, f \in BOOLEAN :
         listed = [cached |-> c, active |-> a, fetched |-> f, built |-> FALSE]
    /\ index = EmptyDict
    /\ \E u \in BOOLEAN, i \in BOOLEAN :
         store = [t \in TaskIds |->
                     IF t = "A" THEN NewTask(t, u, i, "Open")
                     ELSE NewTask(t, TRUE, TRUE, "Open")]
    /\ remote = [th \in ThreadIds |-> NoThread]
    /\ db = [task_to_thread |-> EmptyDict, thread_to_task |-> EmptyDict]
    /\ task_to_thread = EmptyDict
    /\ thread_to_task = EmptyDict
    /\ pc = "idle"
    /\ tasks = <<>>
    /\ live_threads = {}
    /\ mappings_changed = FALSE
    /\ idx = 0
    /\ pending = {}
    /\ log = <<>>
    /\ start = NoStart
    /\ raised = FALSE
    /\ events = 0
    /\ save_failed = FALSE
    /\ peer = FreshInstance
    /\ script = NoRun
    /\ paste = NoPaste
    /\ drain = NoDrain
    /\ handler = NoHandler

\* Lines 118-134 of the pass: the index is built from the two listings.
BuildThreadIndex ==
    /\ ~listed.built
    /\ index' = LiveThreads(listed.cached, listed.active, listed.fetched)
    /\ listed' = [listed EXCEPT !.built = TRUE]
    /\ UNCHANGED <<store, remote, db, task_to_thread, thread_to_task, pc, tasks,
                   live_threads, mappings_changed, idx, pending, log, start, raised,
                   events, save_failed, peer, script, paste, drain, handler>>

NextIndex == BuildThreadIndex

SpecIndex == InitIndex /\ [][NextIndex]_vars

(***************************************************************************)
(* Two service instances                                                   *)
(***************************************************************************)
\* The attributes of the running instance and the locals of its pass.
Running ==
    [task_to_thread |-> task_to_thread, thread_to_task |-> thread_to_task, pc |-> pc,
     tasks |-> tasks, live_threads |-> live_threads,
     mappings_changed |-> mappings_changed, idx |-> idx, pending |-> pending,
     log |-> log, start |-> start, raised |-> raised, save_failed |-> save_failed]

\* The event loop (or the other process) runs the other instance: the running
\* instance is parked where it awaits, the parked one resumes.  The task
\* store, the forum and the persisted mapping are shared.
Switch ==
    /\ peer' = Running
    /\ task_to_thread' = peer.task_to_thread
    /\ thread_to_task' = peer.thread_to_task
    /\ pc' = peer.pc
    /\ tasks' = peer.tasks
    /\ live_threads' = peer.live_threads
    /\ mappings_changed' = peer.mappings_changed
    /\ idx' = peer.idx
    /\ pending' = peer.pending
    /\ log' = peer.log
    /\ start' = peer.start
    /\ raised' = peer.raised
    /\ save_failed' = peer.save_failed
    /\ UNCHANGED <<store, remote, db, events, listed, index, script, paste, drain,
                   handler>>

\* Passes of the two instances, overlapping, over a task set that does not change.
NextOverlap ==
    \/ StartPass
    \/ MainStep
    \/ ReverseStep
    \/ OrphanStep
    \/ FinishPass
    \/ PassReturn
    \/ Switch

\* The deployment after its first event: task A was deleted from the task store
\* before any pass had run, task B is open.
InitOverlap ==
    /\ store = [t \in TaskIds |->
                   IF t = "A" THEN [NewTask(t, TRUE, TRUE, "Open") EXCEPT !.present = FALSE]
                   ELSE NewTask(t, TRUE, TRUE, "Open")]
    /\ remote = [th \in ThreadIds |-> NoThread]
    /\ db = [task_to_thread |-> EmptyDict, thread_to_task |-> EmptyDict]
    /\ task_to_thread = EmptyDict
    /\ thread_to_task = EmptyDict
    /\ pc = "idle"
    /\ tasks = <<>>
    /\ live_threads = {}
    /\ mappings_changed = FALSE
    /\ idx = 0
    /\ pending = {}
    /\ log = <<>>
    /\ start = NoStart
    /\ raised = FALSE
    /\ save_failed = FALSE
    /\ peer = FreshInstance
    /\ events = 1
    /\ listed = NoListing
    /\ index = EmptyDict
    /\ script = NoRun
    /\ paste = NoPaste
    /\ drain = NoDrain
    /\ handler = NoHandler

SpecOverlap == InitOverlap /\ [][NextOverlap]_vars

(***************************************************************************)
(* Two passes on one service instance                                      *)
(***************************************************************************)
\* The running pass is at an await: sync_from_database is not running, or its
\* main loop is at a task that is not Complete, whose step awaits a remote
\* call (create_thread, fetch_channel, fetch_message) before it goes on, or
\* it has loaded the mapping and awaits the active-thread list.
AtAwait ==
    \/ pc \in {"idle", "done"}
    \/ /\ pc = "main"
       /\ idx <= Len(tasks)
       /\ idx = 1 \/ tasks[idx].status # "Complete"

\* Both tasks are open, nothing is mapped and the forum is empty.
InitShared ==
    /\ store = [t \in TaskIds |-> NewTask(t, TRUE, TRUE, "Open")]
    /\ remote = [th \in ThreadIds |-> NoThread]
    /\ db = [task_to_thread |-> EmptyDict, thread_to_task |-> EmptyDict]
    /\ task_to_thread = EmptyDict
    /\ thread_to_task = EmptyDict
    /\ pc = "idle"
    /\ tasks = <<>>
    /\ live_threads = {}
    /\ mappings_changed = FALSE
    /\ idx = 0
    /\ pending = {}
    /\ log = <<>>
    /\ start = NoStart
    /\ raised = FALSE
    /\ save_failed = FALSE
    /\ peer = FreshInstance
    /\ events = 1
    /\ listed = NoListing
    /\ index = EmptyDict
    /\ script = NoRun
    /\ paste = NoPaste
    /\ drain = NoDrain
    /\ handler = NoHandler

\* The event loop runs the other pass of the same instance: the running pass
\* is parked where it awaits, the parked one resumes with its own locals.
\* self.task_to_thread and self.thread_to_task are attributes of the one
\* instance, so both passes read and assign the same maps.
SwitchPass ==
    /\ AtAwait
    /\ peer' = Running
    /\ pc' = peer.pc
    /\ tasks' = peer.tasks
    /\ live_threads' = peer.live_threads
    /\ mappings_changed' = peer.mappings_changed
    /\ idx' = peer.idx
    /\ pending' = peer.pending
    /\ log' = peer.log
    /\ start' = peer.start
    /\ raised' = peer.raised
    /\ save_failed' = peer.save_failed
    /\ UNCHANGED <<task_to_thread, thread_to_task, store, remote, db, events, listed,
                   index, script, paste, drain, handler>>

\* Passes of one instance, interleaved, over a task set that does not change.
NextShared ==
    \/ StartPass
    \/ MainStep
    \/ ReverseStep
    \/ OrphanStep
    \/ FinishPass
    \/ PassReturn
    \/ SwitchPass

SpecShared == InitShared /\ [][NextShared]_vars

(***************************************************************************)
(* The offload migration script (scripts/offload_long_descriptions.py)     *)
(***************************************************************************)
MaxScriptTasks == 2   \* tasks the script scans

MaxSubtasks == 2      \* subtasks of one task

DESCRIPTION_PASTE_THRESHOLD == 500

\* A description as the script looks at it: its length and whether it starts
\* with the paste base followed by /p/.  The empty string is no paste URL.
Descriptions ==
    {[len |-> n, url |-> u] :
        n \in {0, DESCRIPTION_PASTE_THRESHOLD, DESCRIPTION_PASTE_THRESHOLD + 1},
        u \in BOOLEAN} \ {[len |-> 0, url |-> TRUE]}

is_paste_url(value) == value.url

\* What upload_to_paste does: it returns the share URL the server answered
\* (absolute, or a path relative to the paste base), returns None, or lets an
\* exception it does not catch escape.
Uploads == {"absolute", "relative", "none", "raise"}

upload_to_paste(up) ==
    CASE up = "absolute" -> [len |-> 1, url |-> TRUE]
      [] up = "relative" -> [len |-> 1, url |-> FALSE]
      [] OTHER -> <<>>

offload_description(description, up) ==
    IF description.len <= DESCRIPTION_PASTE_THRESHOLD THEN description
    ELSE IF upload_to_paste(up) # <<>> THEN upload_to_paste(up)
    ELSE description

\* The description is one the script tries to offload.
OverThreshold(desc) ==
    /\ desc.len # 0
    /\ desc.len > DESCRIPTION_PASTE_THRESHOLD
    /\ ~is_paste_url(desc)

ShouldWrite_Unconditional(dry_run, desc, new_desc) == new_desc # desc

\* The script calls the task service to store the new description.
ShouldWrite(dry_run, desc, new_desc) == new_desc # desc /\ ~dry_run

\* One description handled by the script: whether it logs an offload
\* candidate, calls the task service, counts an offload and records a failure.
\* wr is what the task service's write does when it is called.
Handle(dry_run, desc, up, wr) ==
    LET nothing == [candidate |-> FALSE, write |-> FALSE, offloaded |-> FALSE,
                    failed |-> FALSE]
    IN  IF ~OverThreshold(desc) THEN nothing
        ELSE IF up = "raise" THEN [nothing EXCEPT !.failed = TRUE]
        ELSE LET new_desc == offload_description(desc, up)
             IN  IF new_desc = desc THEN [nothing EXCEPT !.failed = TRUE]
                 ELSE [candidate |-> TRUE,
                       write |-> ShouldWrite(dry_run, desc, new_desc),
                       offloaded |-> ShouldWrite(dry_run, desc, new_desc) /\ wr = "ok",
                       failed |-> ShouldWrite(dry_run, desc, new_desc) /\ wr = "error"]

Count(b) == IF b THEN 1 ELSE 0

\* The sync service's variables, which the script does not touch.
syncVars ==
    <<store, remote, db, task_to_thread, thread_to_task, pc, tasks, live_threads,
      mappings_changed, idx, pending, log, start, raised, events, save_failed,
      peer, listed, index, paste, drain, handler>>

\* The script is started, with or without --confirm, on a store of some tasks.
InitOffload ==
    /\ \E confirm \in BOOLEAN, n \in 0..MaxScriptTasks :
         script = [NoRun EXCEPT !.pc = "task", !.confirm = confirm,
                                !.dry_run = ~confirm, !.total_tasks = n]
    /\ store = [t \in TaskIds |-> NewTask(t, TRUE, TRUE, "Open")]
    /\ remote = [th \in ThreadIds |-> NoThread]
    /\ db = [task_to_thread |-> EmptyDict, thread_to_task |-> EmptyDict]
    /\ task_to_thread = EmptyDict
    /\ thread_to_task = EmptyDict
    /\ pc = "idle"
    /\ tasks = <<>>
    /\ live_threads = {}
    /\ mappings_changed = FALSE
    /\ idx = 0
    /\ pending = {}
    /\ log = <<>>
    /\ start = NoStart
    /\ raised = FALSE
    /\ events = 0
    /\ save_failed = FALSE
    /\ peer = FreshInstance
    /\ listed = NoListing
    /\ index = EmptyDict
    /\ paste = NoPaste
    /\ drain = NoDrain
    /\ handler = NoHandler

\* Lines 38-62: the next task's description, then its subtask list.
ScanTask ==
    /\ script.pc = "task"
    /\ script.task_count < script.total_tasks
    /\ \E desc \in Descriptions, up \in Uploads, wr \in {"ok", "error"},
          n \in 0..MaxSubtasks :
         LET h == Handle(script.dry_run, desc, up, wr)
         IN  script' =
               [script EXCEPT
                  !.task_count = @ + 1,
                  !.subtasks = n,
                  !.st = 0,
                  !.pc = IF n = 0 THEN "task" ELSE "subtask",
                  !.candidates.task = @ + Count(h.candidate),
                  !.writes.task = @ + Count(h.write),
                  !.offloaded_tasks = @ + Count(h.offloaded),
                  !.failed = @ + Count(h.failed)]
    /\ UNCHANGED syncVars

\* Lines 63-81: the next subtask of the task.
ScanSubtask ==
    /\ script.pc = "subtask"
    /\ script.st < script.subtasks
    /\ \E desc \in Descriptions, up \in Uploads, wr \in {"ok", "error"} :
         LET h == Handle(script.dry_run, desc, up, wr)
         IN  script' =
               [script EXCEPT
                  !.st = @ + 1,
                  !.pc = IF script.st + 1 = script.subtasks THEN "task" ELSE "subtask",
                  !.candidates.subtask = @ + Count(h.candidate),
                  !.writes.subtask = @ + Count(h.write),
                  !.offloaded_subtasks = @ + Count(h.offloaded),
                  !.failed = @ + Count(h.failed)]
    /\ UNCHANGED syncVars

\* Lines 83-85: every task is scanned and the script reports.
ScriptDone ==
    /\ script.pc = "task"
    /\ script.task_count = script.total_tasks
    /\ script' = [script EXCEPT !.pc = "done"]
    /\ UNCHANGED syncVars

NextOffload ==
    \/ ScanTask
    \/ ScanSubtask
    \/ ScriptDone

SpecOffload == InitOffload /\ [][NextOffload]_vars

(***************************************************************************)
(* paste_service: offload_description over upload_to_paste                 *)
(***************************************************************************)
MaxPasteSteps == 4    \* calls of offload_description and advances of the clock

_PASTE_DNS_BACKOFF_SECONDS == 300

_PASTE_FAILURE_BACKOFF_SECONDS == 120

\* What the paste server's answer to the POST can be: a JSON object whose url
\* is absolute, or a path, or missing or empty; a failure the code catches
\* (URLError, OSError, JSONDecodeError, KeyError); or a body that is JSON but
\* no object, or no text, which raises an exception the code does not catch.
Answers == {"absolute", "relative", "empty", "failure", "malformed"}

\* What one upload finds: KODA_PASTE_URL has a scheme and a host, the host
\* resolves, a fallback IP is configured, and the server's answer.
PasteEnvs ==
    [valid : BOOLEAN, resolvable : BOOLEAN, fallback : BOOLEAN, answer : Answers]

\* Lines 49-51: the call is inside the backoff.
Held(now, retry_after) ==
    now < retry_after

\* upload_to_paste at time now with _PASTE_RETRY_AFTER = retry_after: what it
\* returns (as one of Uploads), whether it was held back by the backoff, the
\* DNS lookups it made, the requests it sent and the new _PASTE_RETRY_AFTER.
UploadAt(now, retry_after, e) ==
    LET quiet(up, ra, n) == [up |-> up, suppressed |-> FALSE, requests |-> 0,
                             lookups |-> n, retry_after |-> ra]
        sent(up, ra) == [up |-> up, suppressed |-> FALSE, requests |-> 1,
                         lookups |-> 1, retry_after |-> ra]
        failed == sent("none", now + _PASTE_FAILURE_BACKOFF_SECONDS)
    IN  IF Held(now, retry_after)
        THEN [up |-> "none", suppressed |-> TRUE, requests |-> 0, lookups |-> 0,
              retry_after |-> retry_after]
        ELSE IF ~e.valid THEN quiet("none", now + _PASTE_FAILURE_BACKOFF_SECONDS, 0)
        ELSE IF ~e.resolvable
        THEN IF e.fallback
             THEN CASE e.answer \in {"absolute", "relative"} -> sent("absolute", retry_after)
                    [] e.answer = "empty" -> sent("none", retry_after)
                    [] e.answer = "failure" -> failed
                    [] OTHER -> sent("raise", retry_after)
             ELSE quiet("none", now + _PASTE_DNS_BACKOFF_SECONDS, 1)
        ELSE CASE e.answer \in {"absolute", "relative"} -> sent(e.answer, retry_after)
               [] e.answer = "empty" -> sent("none", retry_after)
               [] e.answer = "failure" -> failed
               [] OTHER -> sent("raise", retry_after)

\* paste_service is imported and its clock runs.
InitPaste ==
    /\ paste = [NoPaste EXCEPT !.pc = "ready"]
    /\ store = [t \in TaskIds |-> NewTask(t, TRUE, TRUE, "Open")]
    /\ remote = [th \in ThreadIds |-> NoThread]
    /\ db = [task_to_thread |-> EmptyDict, thread_to_task |-> EmptyDict]
    /\ task_to_thread = EmptyDict
    /\ thread_to_task = EmptyDict
    /\ pc = "idle"
    /\ tasks = <<>>
    /\ live_threads = {}
    /\ mappings_changed = FALSE
    /\ idx = 0
    /\ pending = {}
    /\ log = <<>>
    /\ start = NoStart
    /\ raised = FALSE
    /\ events = 0
    /\ save_failed = FALSE
    /\ peer = FreshInstance
    /\ listed = NoListing
    /\ index = EmptyDict
    /\ script = NoRun
    /\ drain = NoDrain
    /\ handler = NoHandler

\* Everything but the paste service's state.
notPaste ==
    <<store, remote, db, task_to_thread, thread_to_task, pc, tasks, live_threads,
      mappings_changed, idx, pending, log, start, raised, events, save_failed,
      peer, listed, index, script, drain, handler>>

\* time.time() moves on.
ClockTick ==
    /\ paste.pc # "off"
    /\ paste.steps < MaxPasteSteps
    /\ paste' = [paste EXCEPT !.now = @ + _PASTE_FAILURE_BACKOFF_SECONDS,
                              !.steps = @ + 1]
    /\ UNCHANGED notPaste

\* One call of offload_description(description).
OffloadCall ==
    /\ paste.pc # "off"
    /\ paste.steps < MaxPasteSteps
    /\ \E description \in Descriptions, e \in PasteEnvs :
         LET long == ~(description.len <= DESCRIPTION_PASTE_THRESHOLD)
             u == UploadAt(paste.now, paste.retry_after, e)
         IN  paste' =
               [paste EXCEPT
                  !.pc = "returned",
                  !.steps = @ + 1,
                  !.description = description,
                  !.uploads = IF long THEN 1 ELSE 0,
                  !.requests = IF long THEN u.requests ELSE 0,
                  !.lookups = IF long THEN u.lookups ELSE 0,
                  !.failed_at = IF long /\ ~u.suppressed /\ u.up \in {"none", "raise"}
                                THEN paste.now ELSE @,
                  !.wait = IF long /\ ~u.suppressed /\ u.up \in {"none", "raise"}
                           THEN (IF e.valid /\ ~e.resolvable /\ ~e.fallback
                                 THEN _PASTE_DNS_BACKOFF_SECONDS
                                 ELSE _PASTE_FAILURE_BACKOFF_SECONDS)
                           ELSE @,
                  !.up = IF long THEN u.up ELSE "na",
                  !.suppressed = long /\ u.suppressed,
                  !.retry_after = IF long THEN u.retry_after ELSE @,
                  !.raised = long /\ u.up = "raise",
                  !.result = IF long /\ u.up = "raise" THEN <<>>
                             ELSE offload_description(description, u.up)]
    /\ UNCHANGED notPaste

NextPaste ==
    \/ ClockTick
    \/ OffloadCall

SpecPaste == InitPaste /\ [][NextPaste]_vars

(***************************************************************************)
(* The thread handlers: handle_thread_rename, update_description_for_thread *)
(***************************************************************************)
\* set(self.PRIORITY_EMOJIS.values())
Markers == {PRIORITY_EMOJIS[p] : p \in DOMAIN PRIORITY_EMOJIS}

RECURSIVE StripMarker_All(_)
\* A faulty variant of StripMarker that removes every leading marker prefix.
StripMarker_All(thread_name) ==
    IF Len(thread_name) >= 2 /\ thread_name[1] \in Markers /\ thread_name[2] = " "
    THEN StripMarker_All(SubSeq(thread_name, 3, Len(thread_name)))
    ELSE thread_name

\* The loop over the markers: the first prefix f"{emoji} " the name starts with
\* is cut off, once (the markers differ, so at most one of them matches).
StripMarker(thread_name) ==
    IF Len(thread_name) >= 2 /\ thread_name[1] \in Markers /\ thread_name[2] = " "
    THEN SubSeq(thread_name, 3, Len(thread_name))
    ELSE thread_name

\* A faulty variant of get_task_uuid_for_thread that answers with the key of
\* another thread's entry when the thread has none.
get_task_uuid_for_thread_AnyEntry(thread_id) ==
    IF StrOf(thread_id) \in DOMAIN thread_to_task THEN thread_to_task[StrOf(thread_id)]
    ELSE IF DOMAIN thread_to_task # {}
    THEN thread_to_task[CHOOSE v \in DOMAIN thread_to_task : TRUE]
    ELSE None

\* self.thread_to_task.get(str(thread_id))
get_task_uuid_for_thread(thread_id) == Get(thread_to_task, StrOf(thread_id))

\* TaskService: the slots of the tasks the key identifies (the canonical key).
TasksByKey(key) == {t \in TaskIds : store[t].present /\ TaskKey(store[t]) = key}

\* The values the task attributes take in these runs.
HandlerNames == {<<"S", "e", "t">>, <<"red", " ", "S">>, <<"white", " ", "S">>}

Priorities ==
    {"Important", "Moderately Important", "Not Important", "default", "Urgent", ""}

\* The descriptions a modal submits.
NewDescriptions == {"d0", "d1"}

\* Everything a handler call leaves alone.
notHandler ==
    <<remote, db, task_to_thread, thread_to_task, pc, tasks, live_threads,
      mappings_changed, idx, pending, log, start, raised, save_failed, peer, listed,
      index, script, paste, drain>>

\* handle_thread_rename(thread), for a thread of the forum.
HandleThreadRename ==
    /\ pc = "idle"
    /\ events < MaxEvents
    /\ events' = events + 1
    /\ \E th \in ThreadIds :
         /\ Exists(remote, th)
         /\ LET task_uuid == get_task_uuid_for_thread(th)
                thread_name == StripMarker(remote[th].name)
                found == TasksByKey(task_uuid)
                old_name == IF found # {} THEN store[CHOOSE t \in found : TRUE].name
                            ELSE task_uuid
            IN  IF task_uuid = None
                THEN /\ handler' = [NoHandler EXCEPT !.op = "rename", !.thread = th]
                     /\ store' = store
                ELSE /\ handler' =
                          [op |-> "rename", thread |-> th, reads |-> {task_uuid},
                           updates |-> {[key |-> task_uuid, field |-> "name",
                                         value |-> thread_name]},
                           logged |-> (old_name # thread_name), raised |-> FALSE]
                     /\ store' = [t \in TaskIds |->
                                    IF t \in found
                                    THEN [store[t] EXCEPT !.name = thread_name]
                                    ELSE store[t]]
    /\ UNCHANGED notHandler

\* update_description_for_thread(thread_id, description)
UpdateDescriptionForThread ==
    /\ pc = "idle"
    /\ events < MaxEvents
    /\ events' = events + 1
    /\ \E th \in ThreadIds, description \in NewDescriptions :
         LET task_uuid == get_task_uuid_for_thread(th)
             found == TasksByKey(task_uuid)
         IN  IF task_uuid = None
             THEN /\ handler' = [NoHandler EXCEPT !.op = "description", !.thread = th,
                                                   !.raised = TRUE]
                  /\ store' = store
             ELSE /\ handler' =
                       [op |-> "description", thread |-> th, reads |-> {},
                        updates |-> {[key |-> task_uuid, field |-> "description",
                                      value |-> description]},
                        logged |-> FALSE, raised |-> FALSE]
                  /\ store' = [t \in TaskIds |->
                                 IF t \in found
                                 THEN [store[t] EXCEPT !.desc = description]
                                 ELSE store[t]]
    /\ UNCHANGED notHandler

\* The service is started on a forum in use: task A, of any name and priority,
\* keyed by its uuid or by its id, may have its thread, named when the task was
\* "Not Important", under its key; thread 2 may be a thread of the forum that
\* no entry points to.
InitHandlers ==
    /\ \E name \in HandlerNames, colour \in Priorities, u \in BOOLEAN,
          mapped \in BOOLEAN, stray \in BOOLEAN :
         LET a == [NewTask("A", u, TRUE, "Open") EXCEPT !.name = name, !.colour = colour]
             b == [NewTask("B", TRUE, TRUE, "Open") EXCEPT !.present = FALSE]
             made == [a EXCEPT !.colour = "Not Important"]
             thread == [st |-> "live", name |-> _get_thread_name(made),
                        content |-> _task_content(made), components |-> TaskViewIds,
                        posts |-> <<>>]
             saved == IF mapped
                      THEN [task_to_thread |-> Put(EmptyDict, TaskKey(a), StrOf(1)),
                            thread_to_task |-> Put(EmptyDict, StrOf(1), TaskKey(a))]
                      ELSE [task_to_thread |-> EmptyDict, thread_to_task |-> EmptyDict]
         IN  /\ store = [t \in TaskIds |-> IF t = "A" THEN a ELSE b]
             /\ remote = [th \in ThreadIds |->
                            IF th = 1 /\ mapped THEN thread
                            ELSE IF th = 2 /\ stray THEN thread
                            ELSE NoThread]
             /\ db = saved
             /\ task_to_thread = saved.task_to_thread
             /\ thread_to_task = saved.thread_to_task
    /\ pc = "idle"
    /\ tasks = <<>>
    /\ live_threads = {}
    /\ mappings_changed = FALSE
    /\ idx = 0
    /\ pending = {}
    /\ log = <<>>
    /\ start = NoStart
    /\ raised = FALSE
    /\ events = MaxEvents - 3
    /\ save_failed = FALSE
    /\ peer = FreshInstance
    /\ listed = NoListing
    /\ index = EmptyDict
    /\ script = NoRun
    /\ paste = NoPaste
    /\ drain = NoDrain
    /\ handler = NoHandler

\* A pass step of the service; the handlers leave its locals alone.
PassStep ==
    /\ \/ StartPass
       \/ MainStep
       \/ ReverseStep
       \/ OrphanStep
       \/ FinishPass
       \/ PassReturn

NextHandlers ==
    \/ PassStep
    \/ HandleThreadRename
    \/ UpdateDescriptionForThread

SpecHandlers == InitHandlers /\ [][NextHandlers]_vars

(***************************************************************************)
(* drain_log_events                                                        *)
(***************************************************************************)
MaxLogEvents == 3     \* log events the task store records in a run

\* The event types the loop dispatches (one stands for the seven it knows)
\* and one it does not know.
EventTypes == {"task_updated", "unknown_type"}

KnownEventTypes == {"task_updated"}

RECURSIVE InIdOrder(_)
\* The events of a set as the list get_pending_log_events returns.
InIdOrder(S) ==
    IF S = {} THEN <<>>
    ELSE LET e == CHOOSE x \in S : \A y \in S : x.id <= y.id
         IN  <<e>> \o InIdOrder(S \ {e})

\* Everything but the log events and the drain.
notDrain ==
    <<store, remote, db, task_to_thread, thread_to_task, pc, tasks, live_threads,
      mappings_changed, idx, pending, log, start, raised, events, save_failed,
      peer, listed, index, script, paste, handler>>

\* The service has its database and no log event is pending.
InitDrain ==
    /\ drain = [NoDrain EXCEPT !.pc = "idle"]
    /\ store = [t \in TaskIds |-> NewTask(t, TRUE, TRUE, "Open")]
    /\ remote = [th \in ThreadIds |-> NoThread]
    /\ db = [task_to_thread |-> EmptyDict, thread_to_task |-> EmptyDict]
    /\ task_to_thread = EmptyDict
    /\ thread_to_task = EmptyDict
    /\ pc = "idle"
    /\ tasks = <<>>
    /\ live_threads = {}
    /\ mappings_changed = FALSE
    /\ idx = 0
    /\ pending = {}
    /\ log = <<>>
    /\ start = NoStart
    /\ raised = FALSE
    /\ events = 0
    /\ save_failed = FALSE
    /\ peer = FreshInstance
    /\ listed = NoListing
    /\ index = EmptyDict
    /\ script = NoRun
    /\ paste = NoPaste
    /\ handler = NoHandler

\* The web app (another process) records a log event for the user, at any
\* time, also while a drain awaits a dispatch.
AddLogEvent ==
    /\ drain.pc # "off"
    /\ drain.added < MaxLogEvents
    /\ \E etype \in EventTypes :
         drain' = [drain EXCEPT
                     !.added = @ + 1,
                     !.pending = @ \cup {[id |-> drain.added + 1, event_type |-> etype]}]
    /\ UNCHANGED notDrain

\* Lines 360-369: the pending events are read.  Reading raises, or returns
\* none, and the drain returns; or the drain goes on to dispatch them.
DrainRead ==
    /\ drain.pc = "idle"
    /\ \E ok \in BOOLEAN :
         LET evs == InIdOrder(drain.pending)
             call == [drain EXCEPT !.sent = <<>>, !.failed = {}, !.clears = 0, !.raised = FALSE]
         IN  drain' = IF ok /\ evs # <<>>
                      THEN [call EXCEPT !.pc = "dispatch", !.events = evs, !.i = 1]
                      ELSE [call EXCEPT !.events = <<>>, !.i = 0]
    /\ UNCHANGED notDrain

\* The drain gives up at the first event whose dispatch raises.
AfterEvent_Abort(d, ok) ==
    IF ok THEN [d EXCEPT !.i = @ + 1]
    ELSE [d EXCEPT !.pc = "idle", !.i = 0]

\* Lines 425-426: an exception of the dispatch is caught and logged inside
\* the loop, which goes on with the next event either way.
AfterEvent(d, ok) ==
    [d EXCEPT !.i = @ + 1]

\* Lines 371-426: one event of the list: a known type is dispatched to the
\* logging service (which may raise), an unknown type is only warned about.
DrainDispatch ==
    /\ drain.pc = "dispatch"
    /\ drain.i <= Len(drain.events)
    /\ LET event == drain.events[drain.i]
           known == event.event_type \in KnownEventTypes
       IN  \E ok \in IF known THEN BOOLEAN ELSE {TRUE} :
             drain' = AfterEvent(
                        [drain EXCEPT
                           !.attempted = IF known THEN @ \cup {event.id} ELSE @,
                           !.sent = IF known THEN Append(@, event.id) ELSE @,
                           !.failed = IF ok THEN @ ELSE @ \cup {event.id}],
                        ok)
    /\ UNCHANGED notDrain

\* Line 428: clear_pending_log_events(username), which is given the user and
\* not the events that were read; when it raises nothing is cleared.
DrainClear ==
    /\ drain.pc = "dispatch"
    /\ drain.i > Len(drain.events)
    /\ \E ok \in BOOLEAN :
         drain' = IF ok
                  THEN [drain EXCEPT
                          !.pc = "idle", !.i = 0, !.clears = @ + 1,
                          !.cleared = @ \cup {e.id : e \in drain.pending},
                          !.pending = {}]
                  ELSE [drain EXCEPT !.pc = "idle", !.i = 0, !.clears = @ + 1]
    /\ UNCHANGED notDrain

NextDrain ==
    \/ AddLogEvent
    \/ DrainRead
    \/ DrainDispatch
    \/ DrainClear

SpecDrain == InitDrain /\ [][NextDrain]_vars

(***************************************************************************)
(* Vocabulary of the properties                                            *)
(***************************************************************************)
\* The two maps are inverses of each other.
Inverse(ttt, thr) ==
    /\ \A k \in DOMAIN ttt : Get(thr, ttt[k]) = k
    /\ \A v \in DOMAIN thr : Get(ttt, thr[v]) = v

\* The calls that change the forum or the persisted mapping.
Mutations == {"create", "rename", "edit", "delete", "archive", "post", "save"}

CallsOf(op, th) == {n \in DOMAIN log : log[n].op = op /\ log[n].th = th}

\* The identifiers a task can be mapped under.
KeysOf(task) == {task.uuid, task.id, task.name} \ {<<>>}

\* The step being taken is the main loop's iteration for tasks[idx].
InMainTask == pc = "main" /\ idx <= Len(tasks)

\* The calls the step being taken adds to the log.
NewCalls == {log'[n] : n \in (DOMAIN log') \ (DOMAIN log)}

(***************************************************************************)
(* C1: after any pass that starts from a persisted mapping whose two maps   *)
(* are inverses of each other, the two maps are again inverses, whatever    *)
(* the task statuses and the remote outcomes.                               *)
(***************************************************************************)
C1_InverseAfterPass ==
    (pc = "done" /\ start.loaded /\ Inverse(start.task_to_thread, start.thread_to_task))
        => Inverse(task_to_thread, thread_to_task)

(***************************************************************************)
(* C3: a pass never calls create_thread for a task that has a mapping entry *)
(* (under its uuid, id or name) pointing to a thread that still exists,     *)
(* whether or not the thread is in the index or the fetch by id succeeds.   *)
(***************************************************************************)
MappedToLiveThread(task) ==
    \E k \in KeysOf(task) :
        /\ k \in DOMAIN task_to_thread
        /\ remote[IntOf(task_to_thread[k])].st = "live"

C3_NoCreateWhileMapped ==
    [][(InMainTask /\ \E c \in NewCalls : c.op = "create")
          => ~MappedToLiveThread(tasks[idx])]_vars

(***************************************************************************)
(* C2: idempotence.  When every task that is not Complete has a mapped      *)
(* thread in the index whose name, starter content and control ids are the  *)
(* derived ones, and no other key has a mapping entry, a pass makes no      *)
(* mutating remote call and does not save the mapping.                      *)
(***************************************************************************)
\* The key is the key of a task of the pass that is not Complete.
OpenTaskKey(k) ==
    \E n \in DOMAIN tasks : TaskKey(tasks[n]) = k /\ tasks[n].status # "Complete"

\* The pass found the goal state: mapping, index and forum as the tasks want them.
GoalAtStart ==
    /\ \A n \in DOMAIN tasks :
         tasks[n].status # "Complete" =>
           /\ TaskKey(tasks[n]) \in DOMAIN start.task_to_thread
           /\ LET th == IntOf(start.task_to_thread[TaskKey(tasks[n])])
              IN  /\ th \in live_threads
                  /\ start.remote[th].name = _get_thread_name(tasks[n])
                  /\ start.remote[th].content = _task_content(tasks[n])
                  /\ start.remote[th].components = TaskViewIds
    /\ \A k \in DOMAIN start.task_to_thread : OpenTaskKey(k)
    /\ \A v \in DOMAIN start.thread_to_task : OpenTaskKey(start.thread_to_task[v])

NoMutation == \A n \in DOMAIN log : log[n].op \notin Mutations

\* C2 as claimed: from a persisted goal state a finished pass has made no mutating call.
C2_Idempotent == (pc = "done" /\ start.loaded /\ GoalAtStart) => NoMutation

\* C2, amended: from the goal state, a pass in which every starter message could
\* be fetched makes no mutating call and no save, at any point of the pass.
C2_IdempotentWhenReadable ==
    (pc # "idle" /\ GoalAtStart
        /\ \A n \in DOMAIN log : log[n].op = "fetch_message" => log[n].res = "ok")
      => NoMutation

\* A finished pass over a goal state with an open task whose starter message it read.
C2_Witness ==
    /\ pc = "done"
    /\ GoalAtStart
    /\ \E n \in DOMAIN log : log[n].op = "fetch_message" /\ log[n].res = "ok"
    /\ Len(tasks) = 2
    /\ NoMutation

(***************************************************************************)
(* C4: legacy migration.  For a task that reports a uuid and is mapped only *)
(* under its legacy id or name, one pass leaves task_to_thread[uuid] the    *)
(* same thread id and thread_to_task[thread id] the uuid, creates no thread,*)
(* leaves the legacy key absent and saves the mapping.  (Stated for the     *)
(* tasks that are not Complete, whose entry is to outlive the pass.)        *)
(***************************************************************************)
C4_LegacyMigration ==
    (pc = "done" /\ start.loaded) =>
      \A n \in DOMAIN tasks :
        LET task == tasks[n]
            legacy_key == LegacyKey(start.task_to_thread, task)
        IN  (/\ task.uuid # <<>>
             /\ task.status # "Complete"
             /\ task.uuid \notin DOMAIN start.task_to_thread
             /\ legacy_key # None)
            => /\ Get(task_to_thread, task.uuid) = start.task_to_thread[legacy_key]
               /\ Get(thread_to_task, start.task_to_thread[legacy_key]) = task.uuid
               /\ legacy_key \notin DOMAIN task_to_thread
               /\ \A c \in DOMAIN log :
                    ~(log[c].op = "create" /\ log[c].key = task.uuid)
               /\ \E c \in DOMAIN log : log[c].op = "save"

(***************************************************************************)
(* C5: when a task has a known thread id, the thread is not in the index    *)
(* and the fetch by id fails, the task is skipped: its mapping entry stays  *)
(* as it is in both maps and no thread is created or removed for it,        *)
(* whatever its status.                                                     *)
(***************************************************************************)
C5_SkipOnFetchFailure ==
    [][(InMainTask /\ \E c \in NewCalls : c.op = "fetch" /\ c.res = "error")
          => LET mig == MigrateLegacy(task_to_thread, thread_to_task,
                                      mappings_changed, tasks[idx])
             IN  /\ task_to_thread' = mig.ttt
                 /\ thread_to_task' = mig.thr
                 /\ \A c \in NewCalls : c.op \notin {"create", "delete", "archive"}]_vars

(***************************************************************************)
(* C6: completion removal.  For a Complete task with a mapping entry whose  *)
(* thread is in the index, one pass calls delete on the thread (archive and *)
(* lock after a permission error) and, the removal done, the entry is gone  *)
(* from both maps and the mapping is saved, so that a second pass has       *)
(* nothing to do.                                                           *)
(***************************************************************************)
RemovalDone(th) ==
    \E n \in DOMAIN log :
        log[n].th = th /\ log[n].op \in {"delete", "archive"} /\ log[n].res = "ok"

RemovalFailed(th) ==
    \E n \in DOMAIN log :
        log[n].th = th /\ log[n].op \in {"delete", "archive"} /\ log[n].res = "error"

C6_CompletionRemoval ==
    (pc = "done" /\ start.loaded) =>
      \A n \in DOMAIN tasks :
        LET key == TaskKey(tasks[n])
        IN  (/\ tasks[n].status = "Complete"
             /\ key \in DOMAIN start.task_to_thread
             /\ IntOf(start.task_to_thread[key]) \in live_threads)
            => /\ CallsOf("delete", IntOf(start.task_to_thread[key])) # {}
               /\ RemovalDone(IntOf(start.task_to_thread[key]))
                    => /\ key \notin DOMAIN task_to_thread
                       /\ start.task_to_thread[key] \notin DOMAIN thread_to_task
                       /\ \E c \in DOMAIN log : log[c].op = "save"

(***************************************************************************)
(* C7: orphan cleanup.  Every task_to_thread entry whose key identifies no  *)
(* task of the current task set is cleared by one pass, unless the removal  *)
(* call for its thread failed; the sweep does not raise out of the pass.    *)
(***************************************************************************)
OrphanKey(k) == \A n \in DOMAIN tasks : k \notin KeysOf(tasks[n])

C7_OrphanCleanup ==
    (pc = "done" /\ start.loaded) =>
      \A k \in DOMAIN start.task_to_thread :
        OrphanKey(k) =>
          \/ k \notin DOMAIN task_to_thread
          \/ RemovalFailed(IntOf(start.task_to_thread[k]))

(***************************************************************************)
(* C8: content drift.  For a task that is not Complete, with a resolved     *)
(* thread whose starter message the pass could fetch, the pass makes        *)
(* exactly one edit of the starter message when its content differs from    *)
(* the rendered content, or it has no controls, or its control ids differ   *)
(* from the expected ones; otherwise it makes no edit and no post.          *)
(***************************************************************************)
\* The positions the step being taken adds to the log.
NewIdx == (DOMAIN log') \ (DOMAIN log)

\* The starter message of the thread differs from what the task renders to.
Drift(thread, task) ==
    \/ thread.content # _task_content(task)
    \/ thread.components = {}
    \/ thread.components # TaskViewIds

C9_NoFatalFailure ==
    pc = "done" =>
        /\ ~raised
        /\ idx > Len(tasks)
        /\ mappings_changed => \E n \in DOMAIN log : log[n].op = "save"

(***************************************************************************)
(* C10: the mapping is saved at most once per pass, as the last operation   *)
(* of the pass, and if and only if a step of the pass changed the mapping;  *)
(* before that the persisted mapping is the one the pass started with.      *)
(***************************************************************************)
SaveCalls == {n \in DOMAIN log : log[n].op = "save"}

C10_SaveOnceIffChanged ==
    /\ Cardinality(SaveCalls) <= 1
    /\ \A n \in SaveCalls : pc = "done" /\ n = Len(log)
    /\ pc = "done" => (mappings_changed <=> SaveCalls # {})

(***************************************************************************)
(* C11: when loading the persisted mapping fails at the start of a pass,    *)
(* the pass runs with an empty mapping (task_to_thread and thread_to_task   *)
(* both empty), also when the instance still holds a mapping from an        *)
(* earlier load or pass.                                                    *)
(***************************************************************************)
C11_LoadFailureEmpty ==
    (pc = "main" /\ idx = 1 /\ ~start.loaded)
        => /\ task_to_thread = EmptyDict
           /\ thread_to_task = EmptyDict

(***************************************************************************)
(* C12: a failed save at the end of a pass does not raise out of the pass   *)
(* and leaves the persisted mapping as it was; the next pass starts from    *)
(* that persisted mapping, not from the unsaved mapping the failed pass     *)
(* left in memory.                                                          *)
(***************************************************************************)
\* The pass has just ended with a save that failed.
SaveJustFailed ==
    pc = "done" /\ log # <<>> /\ log[Len(log)] = Call("save", 0, None, "error")

\* The pass has just started: nothing of its main loop has run yet.
JustStarted == pc = "main" /\ idx = 1 /\ log = <<>>

C12_FailedSave ==
    /\ (SaveJustFailed /\ start.loaded)
          => /\ ~raised
             /\ db.task_to_thread = start.task_to_thread
             /\ db.thread_to_task = start.thread_to_task
    /\ (JustStarted /\ save_failed)
          => /\ task_to_thread = db.task_to_thread
             /\ thread_to_task = db.thread_to_task

(***************************************************************************)
(* C13: two overlapping passes on separate instances can lose an update.    *)
(* A save writes the saving instance's whole mapping over the persisted     *)
(* one: what another pass persisted since this pass loaded is gone          *)
(* (last writer wins).                                                      *)
(***************************************************************************)
\* The step being taken is a save that succeeds.
SavingOk ==
    /\ pc = "save" /\ pc' = "done" /\ peer' = peer
    /\ \E c \in NewCalls : c.op = "save" /\ c.res = "ok"

C13_LastWriterWins ==
    [][SavingOk =>
         /\ db'.task_to_thread = task_to_thread
         /\ db'.thread_to_task = thread_to_task
         /\ \A v \in (DOMAIN db.thread_to_task) \ (DOMAIN thread_to_task) :
               v \notin DOMAIN db'.thread_to_task]_vars

\* The running instance has just saved; the other instance's pass had created a
\* thread and saved its entry, the thread is still there, and the entry is no
\* longer in the persisted mapping.  Both passes had loaded the mapping.
C13_Witness ==
    /\ pc = "done" /\ log # <<>> /\ log[Len(log)] = Call("save", 0, None, "ok")
    /\ peer.pc = "done"
    /\ start.loaded /\ peer.start.loaded
    /\ \E n \in DOMAIN peer.log : \E m \in DOMAIN peer.log :
          /\ n < m
          /\ peer.log[n].op = "create" /\ peer.log[n].res = "ok"
          /\ peer.log[m] = Call("save", 0, None, "ok")
          /\ Get(peer.thread_to_task, StrOf(peer.log[n].th)) = peer.log[n].key
          /\ remote[peer.log[n].th].st = "live"
          /\ StrOf(peer.log[n].th) \notin DOMAIN db.thread_to_task

(***************************************************************************)
(* C14: the mapping does not leak.  After a pass that ran to its end and in  *)
(* which every removal succeeded, no entry of task_to_thread or thread_to_task has a task key   *)
(* that is absent from the task set or belongs to a Complete task, and      *)
(* neither map has more entries than there are tasks that are not Complete. *)
(***************************************************************************)
\* Every thread the pass tried to remove was removed (deleted, or archived).
RemovalsSucceeded ==
    \A n \in DOMAIN log :
        log[n].op \in {"delete", "archive"} => RemovalDone(log[n].th)

OpenTasks == {n \in DOMAIN tasks : tasks[n].status # "Complete"}

C14_NoLeak ==
    (pc = "done" /\ ~raised /\ start.loaded /\ RemovalsSucceeded)
        => /\ \A k \in DOMAIN task_to_thread : OpenTaskKey(k)
           /\ \A v \in DOMAIN thread_to_task : OpenTaskKey(thread_to_task[v])
           /\ Cardinality(DOMAIN task_to_thread) <= Cardinality(OpenTasks)
           /\ Cardinality(DOMAIN thread_to_task) <= Cardinality(OpenTasks)

(***************************************************************************)
(* C15: a pass that starts from a mapping in which no two task keys map to  *)
(* the same thread id never has two task keys of task_to_thread mapping to  *)
(* the same thread id, legacy-key migration and thread creation included.   *)
(***************************************************************************)
Injective(f) == \A a \in DOMAIN f : \A b \in DOMAIN f : f[a] = f[b] => a = b

C15_OneKeyPerThread ==
    (pc # "idle" /\ Injective(start.task_to_thread)) => Injective(task_to_thread)

\* A finished pass that found two entries, one of them under a legacy key of a
\* task that now reports a uuid, and has moved that entry to the uuid.
C15_Witness ==
    /\ pc = "done"
    /\ Cardinality(DOMAIN start.task_to_thread) = 2
    /\ Cardinality(DOMAIN task_to_thread) = 2
    /\ \E n \in DOMAIN tasks :
          LET legacy_key == LegacyKey(start.task_to_thread, tasks[n])
          IN  /\ tasks[n].uuid # None
              /\ tasks[n].uuid \notin DOMAIN start.task_to_thread
              /\ legacy_key # None
              /\ Get(task_to_thread, tasks[n].uuid) = start.task_to_thread[legacy_key]

(***************************************************************************)
(* C16: with an empty mapping and an empty thread index, one pass calls     *)
(* create_thread exactly once for each task that is not Complete, and the   *)
(* thread created has the derived name and one entry in each map; for a     *)
(* Complete task it creates no thread, makes no removal call and records no *)
(* entry.                                                                   *)
(***************************************************************************)
EmptyStart ==
    /\ start.task_to_thread = EmptyDict
    /\ start.thread_to_task = EmptyDict
    /\ live_threads = {}

C16_FreshPass ==
    (pc = "done" /\ EmptyStart) =>
      \A n \in DOMAIN tasks :
        LET key == TaskKey(tasks[n])
            creates == {c \in DOMAIN log : log[c].op = "create" /\ log[c].key = key}
        IN  IF tasks[n].status # "Complete"
            THEN /\ Cardinality(creates) = 1
                 /\ \A c \in creates :
                      log[c].res = "ok" =>
                        /\ Get(task_to_thread, key) = StrOf(log[c].th)
                        /\ Get(thread_to_task, StrOf(log[c].th)) = key
                        /\ remote[log[c].th].name = _get_thread_name(tasks[n])
                        /\ \A v \in DOMAIN thread_to_task :
                              thread_to_task[v] = key => v = StrOf(log[c].th)
            ELSE /\ creates = {}
                 /\ \A c \in DOMAIN log :
                      log[c].key = key => log[c].op \notin {"delete", "archive"}
                 /\ key \notin DOMAIN task_to_thread

(***************************************************************************)
(* C17: tasks are processed in ascending (order, lower-cased name) order,   *)
(* whatever their priority and status and however the task source lists     *)
(* them, so that the threads of a pass are created in the same sequence for *)
(* the same task set.                                                       *)
(***************************************************************************)
\* The key the tasks are to be ordered by.
SortKeyOf(task) == <<task.order, Lower(task.name)>>

\* The position of the task with this key in the pass's task list.
PosOf(key) == CHOOSE n \in DOMAIN tasks : TaskKey(tasks[n]) = key

\* No two tasks of the pass have the same (order, lower-cased name).
DistinctSortKeys ==
    \A a \in DOMAIN tasks : \A b \in DOMAIN tasks :
        a # b => SortKeyOf(tasks[a]) # SortKeyOf(tasks[b])

\* Every listing of the task store gives the task list of the pass.
SameForEveryListing == \A listing \in Listings : SortedBy(listing, <<>>) = tasks

\* C17 as claimed: the task list of a pass is the same however the store is listed.
C17_AnyListing == pc # "idle" => SameForEveryListing

\* C17, amended: the task list is in ascending (order, lower-cased name) order
\* and holds the tasks of the store; the threads are created in that order; and
\* the list is the same for every listing when no two tasks tie on the key.
C17_SortedProcessing ==
    pc # "idle" =>
      /\ \A a \in DOMAIN tasks : \A b \in DOMAIN tasks :
            a < b => ~KeyLess(SortKeyOf(tasks[b]), SortKeyOf(tasks[a]))
      /\ {tasks[n] : n \in DOMAIN tasks} = {store[t] : t \in {u \in TaskIds : store[u].present}}
      /\ Len(tasks) = Cardinality({t \in TaskIds : store[t].present})
      /\ \A c \in DOMAIN log : \A d \in DOMAIN log :
            (c < d /\ log[c].op = "create" /\ log[d].op = "create")
              => PosOf(log[c].key) < PosOf(log[d].key)
      /\ DistinctSortKeys => SameForEveryListing

\* A finished pass that created the thread of "pet" before that of "Set", two
\* tasks of the same order and of different priorities.
C17_Witness ==
    /\ pc = "done"
    /\ Len(tasks) = 2
    /\ tasks[1].name = <<"p", "e", "t">> /\ tasks[2].name = <<"S", "e", "t">>
    /\ tasks[1].order = tasks[2].order
    /\ tasks[1].colour # tasks[2].colour
    /\ Len(log) >= 2
    /\ log[1] = Call("create", 1, TaskKey(tasks[1]), "ok")
    /\ log[2] = Call("create", 2, TaskKey(tasks[2]), "ok")

(***************************************************************************)
(* C18: the thread index is keyed by thread id and holds exactly the cached *)
(* threads of the forum channel and the actively fetched threads whose      *)
(* parent is that channel; for an id in both listings the actively fetched  *)
(* object is kept; when fetching the active threads fails the index is the  *)
(* cached listing alone.                                                    *)
(***************************************************************************)
CachedIds == {listed.cached[n].id : n \in DOMAIN listed.cached}

ActiveForumIds ==
    {listed.active[n].id :
        n \in {a \in DOMAIN listed.active : listed.active[a].parent = ForumChannel}}

C18_ThreadIndex ==
    listed.built =>
      /\ DOMAIN index = CachedIds \cup (IF listed.fetched THEN ActiveForumIds ELSE {})
      /\ DOMAIN index = BuildIndex(CachedIds, ActiveForumIds, listed.fetched)
      /\ \A id \in DOMAIN index :
            /\ index[id].id = id
            /\ index[id].parent = ForumChannel
            /\ index[id].origin =
                 IF listed.fetched /\ id \in ActiveForumIds THEN "active" ELSE "cached"

\* An index built from listings that share a thread of the forum channel, where
\* the active listing also holds a thread of another channel.
C18_Witness ==
    /\ listed.built /\ listed.fetched
    /\ CachedIds \cap ActiveForumIds # {}
    /\ \E n \in DOMAIN listed.active : listed.active[n].parent = OtherChannel
    /\ \E id \in DOMAIN index : index[id].origin = "active"

(***************************************************************************)
(* C19: convergence.  Once the task set has stopped changing and every      *)
(* remote call, load and save succeeds, repeated passes reach the goal      *)
(* state: every task that is not Complete has exactly one mapped live       *)
(* thread with the derived name and the rendered content, no other key has  *)
(* a mapping entry, and every later pass is a no-op.                        *)
(***************************************************************************)
\* The key is the key of a task of the store that is not Complete.
OpenKeyNow(k) ==
    \E t \in TaskIds :
        store[t].present /\ store[t].status # "Complete" /\ TaskKey(store[t]) = k

GoalNow ==
    /\ \A t \in TaskIds :
         (store[t].present /\ store[t].status # "Complete") =>
           LET key == TaskKey(store[t])
           IN  /\ key \in DOMAIN task_to_thread
               /\ LET th == IntOf(task_to_thread[key])
                  IN  /\ remote[th].st = "live"
                      /\ remote[th].name = _get_thread_name(store[t])
                      /\ remote[th].content = _task_content(store[t])
               /\ Cardinality({v \in DOMAIN thread_to_task :
                     thread_to_task[v] = key /\ remote[IntOf(v)].st = "live"}) = 1
    /\ \A k \in DOMAIN task_to_thread : OpenKeyNow(k)
    /\ \A v \in DOMAIN thread_to_task : OpenKeyNow(thread_to_task[v])

\* A pass run after the failures stopped has ended.
HealthyPassDone == Healthy /\ pc = "done"

C19_Convergence ==
    ([]<>HealthyPassDone) => <>[](HealthyPassDone => (GoalNow /\ NoMutation))

(***************************************************************************)
(* C20: the offload script run without --confirm is a dry run that writes   *)
(* nothing: it makes no call to update_task_description_by_uuid and no call *)
(* to upsert_subtask_by_id, whatever the lengths of the descriptions and    *)
(* whatever the paste upload returns.                                       *)
(***************************************************************************)
C20_DryRunNoWrites ==
    (script.pc # "off" /\ ~script.confirm) =>
        (script.writes.task = 0 /\ script.writes.subtask = 0)

\* A run without --confirm has ended after the upload returned a new URL for
\* a long task description and for a long subtask description.
C20_Witness ==
    /\ script.pc = "done"
    /\ ~script.confirm
    /\ script.candidates.task > 0
    /\ script.candidates.subtask > 0

(***************************************************************************)
(* C21: offload_description returns the description unchanged and makes no  *)
(* upload attempt when its length is at most DESCRIPTION_PASTE_THRESHOLD;   *)
(* for a longer description it returns the paste URL when the upload yields *)
(* one and the original description when the upload fails or is held back   *)
(* by the backoff; it never raises and never returns an empty value for a   *)
(* description that is not empty.                                           *)
(***************************************************************************)
\* What the claim says of a call that returned.
OffloadReturns ==
    /\ paste.description.len <= DESCRIPTION_PASTE_THRESHOLD
          => /\ paste.result = paste.description
             /\ paste.uploads = 0
             /\ paste.requests = 0
    /\ paste.description.len > DESCRIPTION_PASTE_THRESHOLD
          => /\ paste.up \in {"absolute", "relative"}
                   => paste.result = upload_to_paste(paste.up)
             /\ (paste.up = "none" \/ paste.suppressed)
                   => paste.result = paste.description
             /\ paste.suppressed => paste.requests = 0
    /\ paste.description.len # 0 => paste.result # <<>> /\ paste.result.len # 0

C21_OffloadDescription ==
    paste.pc = "returned" => (~paste.raised /\ OffloadReturns)

(***************************************************************************)
(* C22: for a Complete task with a resolved thread, the mapping entry is    *)
(* removed only on confirmed removal.  When delete fails with an error that *)
(* is not a permission error, or delete is refused for permission and the   *)
(* archive-and-lock fallback fails too, both maps keep the entry as key     *)
(* resolution found it and the removal does not mark the mapping dirty; the *)
(* entry is still there when the pass ends, and a pass that resolves the    *)
(* thread of a Complete task always attempts the delete, so the next pass   *)
(* tries again.                                                             *)
(***************************************************************************)
\* The step being taken made a removal call that failed for good.
RemovalJustFailed ==
    \E c \in NewCalls : c.op \in {"delete", "archive"} /\ c.res = "error"

\* The step being taken resolved the thread with this id.
JustResolved(thread_id) ==
    /\ thread_id # None
    /\ \/ IntOf(thread_id) \in live_threads
       \/ \E c \in NewCalls : c.op = "fetch" /\ c.res = "ok"

\* The maps still hold the entry of every Complete task whose mapped thread
\* the pass failed to remove and did not remove later in the pass.
FailedRemovalsKept ==
    \A n \in DOMAIN log :
        (/\ log[n].op \in {"delete", "archive"}
         /\ log[n].res = "error"
         /\ ~RemovalDone(log[n].th)
         /\ \E m \in DOMAIN tasks :
               /\ TaskKey(tasks[m]) = log[n].key
               /\ tasks[m].status = "Complete"
               /\ \E k \in KeysOf(tasks[m]) :
                     Get(start.task_to_thread, k) = StrOf(log[n].th))
        => /\ Get(task_to_thread, log[n].key) = StrOf(log[n].th)
           /\ Get(thread_to_task, StrOf(log[n].th)) = log[n].key

C22_RemovalOnlyWhenConfirmed ==
    /\ [][(InMainTask /\ tasks[idx].status = "Complete")
            => LET mig == MigrateLegacy(task_to_thread, thread_to_task,
                                        mappings_changed, tasks[idx])
               IN  /\ RemovalJustFailed
                        => /\ task_to_thread' = mig.ttt
                           /\ thread_to_task' = mig.thr
                           /\ mappings_changed' = mig.chg
                   /\ JustResolved(mig.thread_id)
                        => \E c \in NewCalls :
                              c.op = "delete" /\ c.th = IntOf(mig.thread_id)]_vars
    /\ [](pc # "idle" => FailedRemovalsKept)

(***************************************************************************)
(* C23: for a Complete task whose thread id is known from the mapping but   *)
(* for which no live thread object is resolved, the pass treats the thread  *)
(* as already removed: it makes no delete and no archive call, removes the  *)
(* entry from both task_to_thread and thread_to_task, and marks the mapping *)
(* dirty.                                                                   *)
(***************************************************************************)
C23_StaleEntryOfCompleteTask ==
    [][(InMainTask /\ tasks[idx].status = "Complete")
          => LET mig == MigrateLegacy(task_to_thread, thread_to_task,
                                      mappings_changed, tasks[idx])
             IN  (mig.thread_id # None /\ ~JustResolved(mig.thread_id))
                 => /\ \A c \in NewCalls : c.op \notin {"delete", "archive"}
                    /\ task_to_thread' = Pop(mig.ttt, TaskKey(tasks[idx]))
                    /\ thread_to_task' = Pop(mig.thr, mig.thread_id)
                    /\ TaskKey(tasks[idx]) \notin DOMAIN task_to_thread'
                    /\ mig.thread_id \notin DOMAIN thread_to_task'
                    /\ mappings_changed']_vars

\* A pass has ended that could not fetch the mapped thread of a Complete task
\* and dropped the task's entry without a removal call.
C23_Witness ==
    /\ pc = "done"
    /\ \E n \in DOMAIN log :
         /\ log[n].op = "fetch" /\ log[n].res = "error"
         /\ \E m \in DOMAIN tasks :
               /\ TaskKey(tasks[m]) = log[n].key
               /\ tasks[m].status = "Complete"
         /\ start.task_to_thread[log[n].key] = StrOf(log[n].th)
         /\ log[n].key \notin DOMAIN task_to_thread
         /\ StrOf(log[n].th) \notin DOMAIN thread_to_task
         /\ CallsOf("delete", log[n].th) = {}
         /\ mappings_changed

(***************************************************************************)
(* C24: reverse-scan.  After the main loop, every thread of the index that  *)
(* still has a thread_to_task entry whose key is the key of a Complete task *)
(* of the current task set is removed with the same procedure (delete, else *)
(* archive and lock after a permission error), and its entries are cleared  *)
(* from both maps only when the removal succeeded; threads with no mapping  *)
(* entry, or mapped to a task that is not Complete or is absent, are left   *)
(* untouched by this sweep.                                                 *)
(***************************************************************************)
\* The thread has an entry whose key is the key of a Complete task of the pass.
MappedToComplete(th) ==
    \E m \in DOMAIN tasks :
        /\ Get(thread_to_task, StrOf(th)) = TaskKey(tasks[m])
        /\ tasks[m].status = "Complete"

\* The indexed threads the step being taken is done with.
SweptNow ==
    {IntOf(p.tid) : p \in IF pc' = "reverse" THEN pending \ pending' ELSE pending}

\* The removal procedure, as the calls of one step show it, for thread th.
RemovalProcedure(th) ==
    LET calls == {c \in NewCalls : c.th = th}
    IN  /\ \E c \in calls : c.op = "delete"
        /\ \A c \in calls : c.op \in {"delete", "archive"}
        /\ (\E c \in calls : c.op = "archive")
              <=> (\E c \in calls : c.op = "delete" /\ c.res = "forbidden")

C24_ReverseScan ==
    [][pc = "reverse"
         => /\ \A th \in SweptNow :
                 IF MappedToComplete(th)
                 THEN RemovalProcedure(th)
                 ELSE \A c \in NewCalls : c.th # th
            /\ \A c \in NewCalls : c.th \in SweptNow
            /\ \A th \in ThreadIds :
                 (\A c \in NewCalls : c.th # th) => remote'[th] = remote[th]
            /\ IF \E c \in NewCalls : c.res = "ok"
               THEN \E c \in NewCalls :
                      /\ c.res = "ok"
                      /\ remote'[c.th].st \in {"deleted", "archived"}
                      /\ task_to_thread' =
                            Pop(task_to_thread, thread_to_task[StrOf(c.th)])
                      /\ thread_to_task' = Pop(thread_to_task, StrOf(c.th))
                      /\ mappings_changed'
               ELSE UNCHANGED <<task_to_thread, thread_to_task, mappings_changed,
                                remote>>]_vars

\* A pass has ended whose reverse-scan deleted a thread the main loop did not
\* handle: a thread of a Complete task that the task's entry did not point to.
C24_Witness ==
    /\ pc = "done"
    /\ \E n \in DOMAIN log :
         /\ log[n].op = "delete" /\ log[n].res = "ok"
         /\ Get(start.thread_to_task, StrOf(log[n].th)) = log[n].key
         /\ Get(start.task_to_thread, log[n].key) # StrOf(log[n].th)
         /\ \E m \in DOMAIN tasks :
               TaskKey(tasks[m]) = log[n].key /\ tasks[m].status = "Complete"
         /\ StrOf(log[n].th) \notin DOMAIN thread_to_task

(***************************************************************************)
(* C25: for a task that is not Complete, with a resolved thread, the pass   *)
(* issues a rename exactly when the thread's current name differs from the  *)
(* derived name.  A failed rename (permission or other error) does not      *)
(* abort the task: the starter message is still fetched and compared, and   *)
(* edited when it differs, in the same step; the mapping stays as key       *)
(* resolution left it; the thread keeps its name, so that the next pass     *)
(* that resolves the thread attempts the rename again.                      *)
(***************************************************************************)
\* The positions of the calls of this kind that the step being taken makes.
NewCallsOf(op) == {n \in NewIdx : log'[n].op = op}

C25_Rename ==
    [][(InMainTask /\ tasks[idx].status # "Complete")
          => LET task == tasks[idx]
                 mig == MigrateLegacy(task_to_thread, thread_to_task,
                                      mappings_changed, task)
                 th == IntOf(mig.thread_id)
                 differs == remote[th].name # _get_thread_name(task)
                 failed == \E n \in NewCallsOf("rename") :
                               log'[n].res \in {"forbidden", "error"}
             IN  JustResolved(mig.thread_id)
                 => /\ Cardinality(NewCallsOf("rename")) = (IF differs THEN 1 ELSE 0)
                    /\ \A n \in NewCallsOf("rename") : log'[n].th = th
                    /\ failed
                         => /\ \E n \in NewCallsOf("fetch_message") :
                                  /\ log'[n].th = th
                                  /\ \A r \in NewCallsOf("rename") : r < n
                                  /\ (log'[n].res = "ok" /\ Drift(remote[th], task))
                                        => \E e \in NewCallsOf("edit") : log'[e].th = th
                            /\ task_to_thread' = mig.ttt
                            /\ thread_to_task' = mig.thr
                            /\ mappings_changed' = mig.chg
                            /\ remote'[th].name = remote[th].name]_vars

\* A pass has ended in which a rename was refused and the starter message of
\* the same thread was then fetched and edited, the mapping as the pass found it.
C25_Witness ==
    /\ pc = "done"
    /\ \E n \in DOMAIN log : \E e \in DOMAIN log :
         /\ log[n].op = "rename" /\ log[n].res = "forbidden"
         /\ log[e].op = "edit" /\ log[e].res = "ok" /\ log[e].th = log[n].th
         /\ n < e
         /\ remote[log[n].th].name = start.remote[log[n].th].name
         /\ remote[log[n].th].name # _get_thread_name(UuidToTask(tasks)[log[n].key])
    /\ task_to_thread = start.task_to_thread
    /\ thread_to_task = start.thread_to_task

(***************************************************************************)
(* C26: when the starter message of a resolved thread cannot be fetched or  *)
(* edited, the pass sends exactly one new message with the rendered content *)
(* to that thread and leaves the mapping as it is; when the starter message *)
(* is fetched, and edited if need be, it sends none.  This repeats in every *)
(* pass in which the starter message stays unreachable: each such pass      *)
(* whose send is accepted makes the thread's posted snapshots one more.     *)
(***************************************************************************)
\* The posts the pass has made to the thread so far.
PostedTo(th) ==
    {n \in DOMAIN log : log[n].op = "post" /\ log[n].th = th /\ log[n].res = "ok"}

C26_FallbackPost ==
    /\ [][(InMainTask /\ tasks[idx].status # "Complete")
            => LET task == tasks[idx]
                   mig == MigrateLegacy(task_to_thread, thread_to_task,
                                        mappings_changed, task)
                   th == IntOf(mig.thread_id)
                   unreachable ==
                       \E n \in NewCallsOf("fetch_message") \cup NewCallsOf("edit") :
                           log'[n].res = "error"
                   sent == \E n \in NewCallsOf("post") : log'[n].res = "ok"
               IN  JustResolved(mig.thread_id)
                   => /\ Cardinality(NewCallsOf("post")) = (IF unreachable THEN 1 ELSE 0)
                      /\ \A n \in NewCallsOf("post") : log'[n].th = th
                      /\ remote'[th].posts =
                           (IF sent THEN Append(remote[th].posts, _task_content(task))
                            ELSE remote[th].posts)
                      /\ unreachable => /\ task_to_thread' = mig.ttt
                                         /\ thread_to_task' = mig.thr
                                         /\ mappings_changed' = mig.chg]_vars
    /\ [](pc # "idle"
            => \A th \in ThreadIds :
                 PostedTo(th) # {}
                   => /\ Cardinality(PostedTo(th)) = 1
                      /\ Len(remote[th].posts) = Len(start.remote[th].posts) + 1)

\* A second pass in a row has ended that could not fetch the starter message
\* of a thread and has posted to it: the thread holds two snapshots.
C26_Witness ==
    /\ pc = "done"
    /\ \E th \in ThreadIds :
         /\ PostedTo(th) # {}
         /\ Len(start.remote[th].posts) = 1
         /\ Len(remote[th].posts) = 2
         /\ \E n \in DOMAIN log :
               log[n].op = "fetch_message" /\ log[n].th = th /\ log[n].res = "error"
    /\ task_to_thread = start.task_to_thread

(***************************************************************************)
(* C27: the derived thread name is the marker selected by the task's        *)
(* priority, a single space, and the task name.  The three recognised       *)
(* priorities (Important, Moderately Important, Not Important) give their   *)
(* own marker; every unrecognised or missing priority gives the default     *)
(* marker, which is the marker of Not Important.                            *)
(***************************************************************************)
\* The marker table as the claim states it.
NotImportantMarker == "white"

MarkerOf(priority) ==
    CASE priority = "Important" -> "red"
      [] priority = "Moderately Important" -> "orange"
      [] priority = "Not Important" -> NotImportantMarker
      [] OTHER -> NotImportantMarker

\* The task of the pass with this key.
TaskOfKey(key) == UuidToTask(tasks)[key]

C27_DerivedName ==
    /\ Cardinality({MarkerOf("Important"), MarkerOf("Moderately Important"),
                    MarkerOf("Not Important")}) = 3
    /\ \A n \in DOMAIN log :
         (log[n].op \in {"create", "rename"} /\ log[n].res = "ok")
         => LET task == TaskOfKey(log[n].key)
            IN  /\ remote[log[n].th].name
                     = <<MarkerOf(task.colour), " ">> \o task.name
                /\ Len(remote[log[n].th].name) = Len(task.name) + 2

\* A pass has just created the thread of a task whose priority is not one of
\* the three recognised ones, and whose name begins like a marker prefix.
C27_Witness ==
    /\ pc = "main"
    /\ log # <<>>
    /\ log[Len(log)].op = "create" /\ log[Len(log)].res = "ok"
    /\ TaskOfKey(log[Len(log)].key).colour = "Urgent"
    /\ TaskOfKey(log[Len(log)].key).name = <<"red", " ", "S">>

(***************************************************************************)
(* C28: name round trip.  For every task name and priority,                 *)
(* handle_thread_rename applied to a thread that is mapped to a task and    *)
(* whose name is the derived name (marker, space, task name) writes exactly *)
(* the task name back to the task store, removing one marker prefix only,   *)
(* and logs no rename.  So a rename issued by a pass and echoed back        *)
(* through handle_thread_rename leaves the task name unchanged, and the     *)
(* next pass, finding the derived name, issues no further rename.           *)
(***************************************************************************)
\* The step being taken is a call of the handler for thread th.
HandlerCalled(op, th) ==
    /\ pc = "idle" /\ pc' = "idle"
    /\ events' # events
    /\ handler'.op = op
    /\ handler'.thread = th

C28_NameRoundTrip ==
    /\ [][\A th \in ThreadIds : \A t \in TaskIds :
            (/\ HandlerCalled("rename", th)
             /\ store[t].present
             /\ Get(thread_to_task, StrOf(th)) = TaskKey(store[t])
             /\ remote[th].name = _get_thread_name(store[t]))
            => /\ handler'.updates = {[key |-> TaskKey(store[t]), field |-> "name",
                                       value |-> store[t].name]}
               /\ store' = store
               /\ ~handler'.logged]_vars
    /\ [](pc # "idle"
            => \A n \in DOMAIN log :
                 log[n].op = "rename"
                   => start.remote[log[n].th].name
                        # _get_thread_name(TaskOfKey(log[n].key)))

\* A pass renamed the thread of a task whose name begins like a marker prefix,
\* the rename came back through handle_thread_rename, which logged nothing and
\* left the name alone, and the next pass has ended without a rename.
C28_Witness ==
    /\ pc = "done"
    /\ handler.op = "rename"
    /\ ~handler.logged
    /\ \E t \in TaskIds :
         /\ store[t].present
         /\ store[t].name = <<"red", " ", "S">>
         /\ store[t].colour = "Important"
         /\ handler.updates = {[key |-> TaskKey(store[t]), field |-> "name",
                                value |-> store[t].name]}
         /\ remote[handler.thread].name = _get_thread_name(store[t])
    /\ \E n \in DOMAIN log : log[n].op = "fetch_message" /\ log[n].th = handler.thread
    /\ \A n \in DOMAIN log : log[n].op # "rename"

(***************************************************************************)
(* C29: operations on a thread that has no thread_to_task entry never touch *)
(* the task store: handle_thread_rename returns without reading or updating *)
(* any task and without logging, and update_description_for_thread raises   *)
(* ValueError without updating any description.  For a mapped thread each   *)
(* updates only the task whose key is thread_to_task[thread id].            *)
(***************************************************************************)
C29_UnmappedThreadHandlers ==
    [][\A th \in ThreadIds : \A op \in {"rename", "description"} :
          HandlerCalled(op, th)
          => LET key == Get(thread_to_task, StrOf(th))
             IN  IF key = None
                 THEN /\ store' = store
                      /\ handler'.reads = {}
                      /\ handler'.updates = {}
                      /\ ~handler'.logged
                      /\ handler'.raised <=> (op = "description")
                 ELSE /\ ~handler'.raised
                      /\ handler'.reads \subseteq {key}
                      /\ \A u \in handler'.updates : u.key = key
                      /\ \A t \in TaskIds :
                           store'[t] # store[t] => TaskKey(store[t]) = key]_vars

\* update_description_for_thread has raised for a live thread of the forum
\* that has no entry, while another thread is mapped to a task.
C29_Witness ==
    /\ handler.op = "description"
    /\ handler.raised
    /\ remote[handler.thread].st = "live"
    /\ StrOf(handler.thread) \notin DOMAIN thread_to_task
    /\ thread_to_task # EmptyDict
    /\ \E t \in TaskIds : store[t].present /\ store[t].desc = "d1"

(***************************************************************************)
(* C30: drain_log_events never clears a pending log event for which no      *)
(* dispatch attempt was made: the pending events of a user are cleared only *)
(* after a dispatch was attempted for each of them, also when events are    *)
(* added to the store between the read of the pending events and the clear, *)
(* and nothing is cleared when reading the pending events fails or returns  *)
(* none.                                                                    *)
(***************************************************************************)
C30_DrainClearsOnlyDispatched ==
    /\ [](drain.cleared \subseteq drain.attempted)
    /\ [][(drain.pc = "idle" /\ drain'.pc = "idle" /\ drain'.added = drain.added)
            => /\ drain'.pending = drain.pending
               /\ drain'.cleared = drain.cleared]_vars

RECURSIVE Dispatchable(_)
\* The ids of the events of a batch that have a known type, in batch order.
Dispatchable(evs) ==
    IF evs = <<>> THEN <<>>
    ELSE (IF Head(evs).event_type \in KnownEventTypes THEN <<Head(evs).id>> ELSE <<>>)
         \o Dispatchable(Tail(evs))

(***************************************************************************)
(* C31: in drain_log_events a failure while dispatching one event (or an    *)
(* unknown event type) does not stop the drain: every later event of the    *)
(* batch is still dispatched in order, the pending events are then cleared  *)
(* exactly once, and the call does not raise.                               *)
(***************************************************************************)
C31_DrainGoesOn ==
    [][(drain.pc = "dispatch" /\ drain'.pc = "idle")
         => /\ drain'.sent = Dispatchable(drain.events)
            /\ drain'.clears = 1
            /\ ~drain'.raised]_vars

\* A drain has ended in which the dispatch of the first event failed, an
\* event of unknown type followed and a later event was dispatched.
C31_Witness ==
    /\ drain.pc = "idle"
    /\ drain.clears = 1
    /\ Len(drain.events) = 3
    /\ drain.events[1].id \in drain.failed
    /\ drain.events[2].event_type \notin KnownEventTypes
    /\ drain.sent = <<drain.events[1].id, drain.events[3].id>>

\* The step being taken is a call of upload_to_paste.
UploadCalled ==
    /\ paste'.steps = paste.steps + 1
    /\ paste'.now = paste.now
    /\ paste'.uploads = 1

(***************************************************************************)
(* C32: paste upload backoff.  After upload_to_paste fails at time t, every *)
(* call made before t + 120 seconds (t + 300 seconds when the failure was   *)
(* an unresolvable hostname with no fallback IP configured) returns None    *)
(* without any DNS lookup or network request; the first call at or after    *)
(* that time attempts the upload again, and a successful upload never sets  *)
(* a backoff.                                                               *)
(***************************************************************************)
C32_Backoff ==
    [][UploadCalled =>
         /\ (paste.failed_at >= 0 /\ paste.now < paste.failed_at + paste.wait)
               => /\ paste'.up = "none"
                  /\ paste'.lookups = 0
                  /\ paste'.requests = 0
         /\ (paste.failed_at >= 0 /\ paste.now >= paste.failed_at + paste.wait)
               => ~paste'.suppressed
         /\ paste'.up \in {"absolute", "relative"}
               => paste'.retry_after = paste.retry_after]_vars

(***************************************************************************)
(* C33: when two passes run interleaved on the same ForumSyncService        *)
(* instance, the mapping reload at the start of the second pass does not    *)
(* discard changes the first pass has made but not yet saved: every mapping *)
(* entry the first pass created or removed before the second pass started   *)
(* is reflected in the mapping the first pass saves at its end.             *)
(***************************************************************************)
C33_ReloadKeepsUnsaved ==
    [][(pc = "save" /\ pc' = "done" /\ peer' = peer
          /\ \E c \in NewCalls : c.op = "save" /\ c.res = "ok")
         => \A n \in DOMAIN log :
               /\ (log[n].op = "create" /\ log[n].res = "ok")
                     => Get(db'.thread_to_task, StrOf(log[n].th)) = log[n].key
               /\ (log[n].op \in {"delete", "archive"} /\ log[n].res = "ok")
                     => StrOf(log[n].th) \notin DOMAIN db'.thread_to_task]_vars

(***************************************************************************)
(* C34: every thread a pass creates is recorded in the persisted mapping by *)
(* the time that pass ends, whether it ends normally or through an error    *)
(* raised by a later remote call, provided the save call itself succeeds    *)
(* when made; no pass leaves a thread it created without a persisted        *)
(* mapping entry.                                                           *)
(***************************************************************************)
C34_CreatedThreadsPersisted ==
    (pc = "done" /\ ~\E n \in SaveCalls : log[n].res = "error")
        => \A n \in DOMAIN log :
              (log[n].op = "create" /\ log[n].res = "ok")
                 => /\ Get(db.thread_to_task, StrOf(log[n].th)) = log[n].key
                    /\ Get(db.task_to_thread, log[n].key) = StrOf(log[n].th)

\* The key is one of the identifiers (uuid, id or name) of a task of the
\* task set of the pass.
IdentifiesTask(k) == \E n \in DOMAIN tasks : k \in KeysOf(tasks[n])

(***************************************************************************)
(* C35: the orphan sweep removes a thread and clears its mapping entry only *)
(* when the entry's key identifies no task of the current task set under    *)
(* any of that task's identifiers (uuid, id or name): for every loaded      *)
(* mapping, including one that holds entries under both a task's uuid and   *)
(* its legacy id or name, no thread mapped to a task still present in the   *)
(* task set is deleted or archived by the orphan sweep.                     *)
(***************************************************************************)
C35_OrphanSweepOnlyOrphans ==
    [][(pc = "orphan" /\ peer' = peer) =>
         /\ \A c \in NewCalls :
               c.op \in {"delete", "archive"}
                  => /\ ~IdentifiesTask(c.key)
                     /\ \A k \in DOMAIN task_to_thread :
                           task_to_thread[k] = StrOf(c.th) => ~IdentifiesTask(k)
         /\ \A k \in (DOMAIN task_to_thread) \ (DOMAIN task_to_thread') :
               ~IdentifiesTask(k)]_vars

\* The calls of the pass so far that delete the thread.
DeleteCalls(th) == {n \in DOMAIN log : log[n].op = "delete" /\ log[n].th = th}

(***************************************************************************)
(* C36: within one pass each thread receives at most one delete call: a     *)
(* thread whose removal was attempted in the main loop (successfully or     *)
(* not) is not targeted again by the reverse-scan or the orphan sweep of    *)
(* the same pass, and a removal that failed is retried only in the next     *)
(* pass.                                                                    *)
(***************************************************************************)
C36_OneDeletePerPass ==
    \A th \in ThreadIds : Cardinality(DeleteCalls(th)) <= 1
====
